---- MODULE Spec2Model ----
(***************************************************************************)
(* dom-to-image-more: the snapshot-and-inline pipeline                     *)
(* (src/src/dom-to-image-more.js).                                         *)
(*                                                                         *)
(* Text (URLs, style values, rule text, data URIs) is a sequence of        *)
(* lexical tokens.  A token stands for a run of characters that the        *)
(* regular expressions of the program never split: "url(" is the four      *)
(* characters u r l (, "sq" and "dq" are the single and the double quote,  *)
(* "data:" the five characters d a t a :, and so on.                       *)
(***************************************************************************)
EXTENDS Integers, Sequences, FiniteSets, TLC

Quotes == {"sq", "dq"}

\* JavaScript's undefined where a text is expected.
Undefined == <<"undefined">>

-----------------------------------------------------------------------------
(* util: pure text helpers                                                 *)

\* String.prototype.split(/,/): the pieces between the commas.
RECURSIVE split(_)
split(s) ==
    IF \A i \in 1..Len(s) : s[i] # ","
    THEN <<s>>
    ELSE LET k == CHOOSE i \in 1..Len(s) :
                      s[i] = "," /\ \A j \in 1..(i - 1) : s[j] # ","
         IN  <<SubSeq(s, 1, k - 1)>> \o split(SubSeq(s, k + 1, Len(s)))

\* util.isDataUrl: url.search(/^(data:)/) !== -1
isDataUrl(url) == Len(url) > 0 /\ url[1] = "data:"

toLowerCase(tok) ==
    CASE tok = "PNG" -> "png"
      [] tok = "WOFF" -> "woff"
      [] OTHER -> tok

\* util.parseExtension: /\.([^\.\/]*?)(\?|$)/ -- the leftmost "." after which
\* a (lazy) run free of "." and "/" reaches a "?" or the end of the url.
extEnds(url, i) ==
    {e \in i..Len(url) :
        /\ \A k \in (i + 1)..e : url[k] \notin {".", "/"}
        /\ (e = Len(url) \/ url[e + 1] = "?")}

parseExtension(url) ==
    LET dots == {i \in 1..Len(url) : url[i] = "." /\ extEnds(url, i) # {}}
    IN  IF dots = {} THEN <<>>
        ELSE LET i == CHOOSE d \in dots : \A d2 \in dots : d <= d2
                 e == CHOOSE x \in extEnds(url, i) :
                          \A y \in extEnds(url, i) : x <= y
             IN  SubSeq(url, i + 1, e)

\* util.mimes: the extension -> MIME type table.
mimes(extension) ==
    CASE extension = <<"woff">>  -> <<"application/font-woff">>
      [] extension = <<"woff2">> -> <<"application/font-woff">>
      [] extension = <<"ttf">>   -> <<"application/font-truetype">>
      [] extension = <<"eot">>   -> <<"application/vnd.ms-fontobject">>
      [] extension = <<"png">>   -> <<"image/png">>
      [] extension = <<"jpg">>   -> <<"image/jpeg">>
      [] extension = <<"jpeg">>  -> <<"image/jpeg">>
      [] extension = <<"gif">>   -> <<"image/gif">>
      [] extension = <<"tiff">>  -> <<"image/tiff">>
      [] extension = <<"svg">>   -> <<"image/svg+xml">>
      [] OTHER -> <<>>

\* util.mimeType: mimes()[parseExtension(url).toLowerCase()] || ''
mimeType(url) ==
    LET ext == parseExtension(url)
    IN  mimes([i \in 1..Len(ext) |-> toLowerCase(ext[i])])

\* util.dataAsUrl: 'data:' + type + ';base64,' + content
dataAsUrl(content, type) == <<"data:">> \o type \o <<";base64", ",">> \o content

\* util.resolveUrl: the url as the host resolves it against baseUrl -- an
\* absolute url (one that names its scheme) is kept, a relative one replaces
\* the last path segment of baseUrl.
RECURSIVE dirOf(_)
dirOf(base) ==
    IF base = <<>> \/ base[Len(base)] = "/" THEN base
    ELSE dirOf(SubSeq(base, 1, Len(base) - 1))

resolveUrl(url, baseUrl) ==
    IF Len(url) > 0 /\ url[1] \in {"http:", "data:"} THEN url
    ELSE dirOf(baseUrl) \o url

\* A length as the host writes it in a computed style: the decimal digits
\* of the whole pixels, one token each, then the token "px".
Digits == {"0", "1", "2", "3", "4", "5", "6", "7", "8", "9"}

RECURSIVE digitsOf(_)
digitsOf(n) ==
    IF n < 10 THEN <<ToString(n)>>
    ELSE digitsOf(n \div 10) \o <<ToString(n % 10)>>

\* window.getComputedStyle(node).getPropertyValue('border-<side>-width')
getPropertyValue(box, side) == digitsOf(box.border[side]) \o <<"px">>

\* value.replace('px', ''): the first occurrence is removed.
replacePx(value) ==
    IF "px" \notin {value[i] : i \in 1..Len(value)} THEN value
    ELSE LET k == CHOOSE i \in 1..Len(value) :
                      value[i] = "px" /\ \A j \in 1..(i - 1) : value[j] # "px"
         IN  SubSeq(value, 1, k - 1) \o SubSeq(value, k + 1, Len(value))

\* parseFloat on a text that starts with a digit: the number its leading
\* digits write.
RECURSIVE parseDigits(_, _)
parseDigits(s, acc) ==
    IF s = <<>> \/ s[1] \notin Digits THEN acc
    ELSE parseDigits(Tail(s), 10 * acc + (CHOOSE d \in 0..9 : ToString(d) = s[1]))

parseFloat(s) == parseDigits(s, 0)

\* (A border that counts for nothing.)
pxIgnored(box, side) == 0

\* util.px(node, styleProperty)
px(box, side) == parseFloat(replacePx(getPropertyValue(box, side)))

\* util.width(node), util.height(node)
width(box) == box.scrollWidth + px(box, "left") + px(box, "right")
height(box) == box.scrollHeight + px(box, "top") + px(box, "bottom")

-----------------------------------------------------------------------------
(* inliner: URL_REGEX = /url\(['"]?([^'"]+?)['"]?\)/g                      *)

\* Where the capture group of a match that starts at token i begins: after
\* "url(" and the optional quote.
capStart(s, i) == IF i + 1 <= Len(s) /\ s[i + 1] \in Quotes THEN i + 2 ELSE i + 1

\* The closing part ['"]?\) matched at position p: the position after it,
\* or 0 when it does not match there.
closeAt(s, p) ==
    IF p <= Len(s) /\ s[p] = ")" THEN p + 1
    ELSE IF p + 1 <= Len(s) /\ s[p] \in Quotes /\ s[p + 1] = ")" THEN p + 2
    ELSE 0

\* The ends e of a capture a..e of URL_REGEX: one or more tokens, none a
\* quote, followed by the closing part.
capEnds(s, a) ==
    {e \in a..Len(s) :
        /\ \A k \in a..e : s[k] \notin Quotes
        /\ closeAt(s, e + 1) # 0}

matchesAt(s, i) == i <= Len(s) /\ s[i] = "url(" /\ capEnds(s, capStart(s, i)) # {}

\* The lazy quantifier takes the shortest capture.
capEnd(s, i) ==
    CHOOSE e \in capEnds(s, capStart(s, i)) :
        \A e2 \in capEnds(s, capStart(s, i)) : e <= e2

\* RegExp.prototype.exec from lastIndex `from`, repeated until it returns
\* null: the capture groups of the successive leftmost matches.
RECURSIVE execAll(_, _)
execAll(s, from) ==
    LET starts == {i \in from..Len(s) : matchesAt(s, i)}
    IN  IF starts = {} THEN <<>>
        ELSE LET i == CHOOSE x \in starts : \A y \in starts : x <= y
                 e == capEnd(s, i)
             IN  <<SubSeq(s, capStart(s, i), e)>> \o execAll(s, closeAt(s, e + 1))

\* inliner.shouldProcess: string.search(URL_REGEX) !== -1
shouldProcess(string) == \E i \in 1..Len(string) : matchesAt(string, i)

\* (readUrls without its filter.)
readUrlsUnfiltered(string) == execAll(string, 1)

\* inliner.impl.readUrls
readUrls(string) == SelectSeq(execAll(string, 1), LAMBDA url : ~isDataUrl(url))

\* inline's urlAsRegex(url) = (url\(['"]?)(<url>)(['"]?\)) matched at token i:
\* the position after the match, or 0.
isAt(s, p, url) ==
    p + Len(url) - 1 <= Len(s) /\ SubSeq(s, p, p + Len(url) - 1) = url

urlMatchEnd(s, i, url) ==
    IF ~(i <= Len(s) /\ s[i] = "url(") THEN 0
    ELSE LET quoted == i + 1 <= Len(s) /\ s[i + 1] \in Quotes
             viaQuote == IF quoted /\ isAt(s, i + 2, url)
                         THEN closeAt(s, i + 2 + Len(url)) ELSE 0
             direct == IF isAt(s, i + 1, url)
                       THEN closeAt(s, i + 1 + Len(url)) ELSE 0
         IN  IF viaQuote # 0 THEN viaQuote ELSE direct

\* string.replace(urlAsRegex(url), '$1' + dataUrl + '$3'): every match,
\* left to right, keeps its opening and closing parts and has the url
\* replaced by dataUrl.
RECURSIVE replaceUrl(_, _, _, _)
replaceUrl(s, from, url, dataUrl) ==
    LET starts == {i \in from..Len(s) : urlMatchEnd(s, i, url) # 0}
    IN  IF starts = {} \/ url = <<>> THEN SubSeq(s, from, Len(s))
        ELSE LET i == CHOOSE x \in starts : \A y \in starts : x <= y
                 end == urlMatchEnd(s, i, url)
                 quoted == i + 1 <= Len(s) /\ s[i + 1] \in Quotes
                           /\ isAt(s, i + 2, url)
                           /\ closeAt(s, i + 2 + Len(url)) # 0
                 a == IF quoted THEN i + 2 ELSE i + 1
             IN  SubSeq(s, from, a - 1) \o dataUrl
                 \o SubSeq(s, a + Len(url), end - 1)
                 \o replaceUrl(s, end, url, dataUrl)

-----------------------------------------------------------------------------
(* The host document: the source tree and its style sheets                 *)

Root == "n1"

\* A source node as the host exposes it: its kind (div, text, img, canvas),
\* childNodes, the img's src, the computed `background`, the computed
\* `content` of :before and :after, the class attribute and, for a canvas,
\* the result of toDataURL().
SrcNode(kind, kids, src, bg, before, after, class, dataUrl) ==
    [kind |-> kind, childNodes |-> kids, src |-> src, background |-> bg,
     before |-> before, after |-> after, class |-> class, dataUrl |-> dataUrl,
     attribute |-> <<>>, value |-> <<>>]

Div(kids, bg, before, after, class) ==
    SrcNode("div", kids, <<>>, bg, before, after, class, <<>>)
TextNode == SrcNode("text", <<>>, <<>>, <<>>, <<>>, <<>>, <<>>, <<>>)
Img(src, bg) == SrcNode("img", <<>>, src, bg, <<>>, <<"none">>, <<>>, <<>>)
Canvas(kids, dataUrl) ==
    SrcNode("canvas", kids, <<>>, <<>>, <<"none">>, <<>>, <<>>, dataUrl)

\* A textarea with its authored text as children and its current value,
\* and an input with its authored value attribute and its current value.
TextArea(kids, value) ==
    [SrcNode("textarea", kids, <<>>, <<>>, <<>>, <<>>, <<>>, <<>>)
        EXCEPT !.value = value]
Input(attribute, value) ==
    [SrcNode("input", <<>>, <<>>, <<>>, <<>>, <<>>, <<>>, <<>>)
        EXCEPT !.attribute = attribute, !.value = value]

aPng == <<"a", ".", "png">>
bPng == <<"http:", "/", "h", "/", "b", ".", "PNG", "?", "v">>
cWoff == <<"c", ".", "woff">>
pixels == <<"data:", "image/png", ";base64", ",", "X">>
\* toDataURL() of a canvas without pixels: 'data:,'
noPixels == <<"data:", ",">>
urlOf(u) == <<"url(">> \o u \o <<")">>

\* A style sheet: whether `cssRules` is an own property, whether reading it
\* throws, its href and its rules (type, the `src` value, cssText).
Rule(type, src) ==
    [type |-> type, src |-> src,
     cssText |-> <<"@font-face", "{", "src:">> \o src \o <<"}">>]
Sheet(own, throws, href, rules) ==
    [own |-> own, throws |-> throws, href |-> href, cssRules |-> rules]

NoSheets == <<>>
FontSheets ==
    << Sheet(TRUE, FALSE, <<"http:", "/", "h", "/", "s", ".", "css">>,
             << Rule("font-face", urlOf(cWoff)),
                Rule("style", urlOf(aPng)),
                Rule("font-face", urlOf(pixels)),
                Rule("font-face", <<"local(", "x", ")">>) >>),
       Sheet(TRUE, TRUE, Undefined, << Rule("font-face", urlOf(aPng)) >>),
       Sheet(FALSE, FALSE, Undefined, << Rule("font-face", urlOf(aPng)) >>) >>

\* What the host reports of the root node's box: scrollWidth, scrollHeight
\* and the used border widths in whole pixels.
Box(scrollWidth, scrollHeight, left, right, top, bottom) ==
    [scrollWidth |-> scrollWidth, scrollHeight |-> scrollHeight,
     border |-> [left |-> left, right |-> right, top |-> top, bottom |-> bottom]]

\* The documents converted: the source tree, the style sheets of the
\* document and the box of the root.
DocTree ==
    [nodes |->
        [n \in {"n1", "n2", "n3", "n4", "n5"} |->
            CASE n = "n1" -> Div(<<"n3", "n2">>, <<>>, <<"none">>, <<>>, <<"r">>)
              [] n = "n2" -> Div(<<"n5">>, <<>>, <<"x">>, <<"z">>, <<"k">>)
              [] n = "n3" -> Div(<<"n4">>, <<>>, <<>>, <<"y">>, <<>>)
              [] n = "n4" -> TextNode
              [] n = "n5" -> TextNode],
     styleSheets |-> NoSheets,
     box |-> Box(200, 100, 1, 1, 2, 2)]

DocCanvas ==
    [nodes |->
        [n \in {"n1", "n2", "n3", "n4"} |->
            CASE n = "n1" -> Div(<<"n2", "n3">>, <<>>, <<>>, <<>>, <<>>)
              [] n = "n2" -> Canvas(<<>>, pixels)
              [] n = "n3" -> Canvas(<<"n4">>, noPixels)
              [] n = "n4" -> TextNode],
     styleSheets |-> NoSheets,
     box |-> Box(30, 20, 0, 0, 0, 0)]

DocImage ==
    [nodes |->
        [n \in {"n1", "n2"} |->
            CASE n = "n1" -> Div(<<"n2">>, <<>>, <<>>, <<>>, <<>>)
              [] n = "n2" -> Img(aPng, <<>>)],
     styleSheets |-> NoSheets,
     box |-> Box(150, 150, 0, 3, 0, 0)]

DocStyled ==
    [nodes |->
        [n \in {"n1", "n2", "n3"} |->
            CASE n = "n1" -> Div(<<"n2", "n3">>,
                                 <<"red">> \o urlOf(aPng) \o urlOf(pixels),
                                 <<>>, <<>>, <<>>)
              [] n = "n2" -> Img(bPng, <<"none">>)
              [] n = "n3" -> Img(pixels, <<>>)],
     styleSheets |-> NoSheets,
     box |-> Box(10, 10, 12, 0, 0, 5)]

DocFonts ==
    [nodes |->
        [n \in {"n1", "n2"} |->
            CASE n = "n1" -> Div(<<"n2">>, <<>>, <<>>, <<>>, <<>>)
              [] n = "n2" -> TextNode],
     styleSheets |-> FontSheets,
     box |-> Box(0, 7, 0, 0, 0, 0)]

DocRootCanvas ==
    [nodes |-> [n \in {"n1"} |-> Canvas(<<>>, noPixels)],
     styleSheets |-> NoSheets,
     box |-> Box(30, 20, 1, 1, 1, 1)]

\* A background with a reference that holds another one, `url(a.png)
\* url("x?url(a.png)")`, and one with a quote in the file name,
\* `url("it's.png")`.
nested == urlOf(aPng) \o <<"url(", "dq", "x", "?">> \o urlOf(aPng) \o <<"dq", ")">>
quoted == <<"url(", "dq", "it", "sq", "s", ".", "png", "dq", ")">>

DocNested ==
    [nodes |->
        [n \in {"n1", "n2"} |->
            CASE n = "n1" -> Div(<<"n2">>, nested, <<>>, <<>>, <<>>)
              [] n = "n2" -> Div(<<>>, quoted, <<>>, <<>>, <<>>)],
     styleSheets |-> NoSheets,
     box |-> Box(5, 5, 0, 0, 0, 0)]

\* Two style sheets with three font rules to resolve, and two images to
\* embed side by side, one of them with a background.
dTtf == <<"d", ".", "ttf">>

GallerySheets ==
    << Sheet(TRUE, FALSE, <<"http:", "/", "h", "/", "s", ".", "css">>,
             << Rule("font-face", urlOf(cWoff)),
                Rule("font-face", urlOf(pixels)) >>),
       Sheet(TRUE, FALSE, Undefined, << Rule("font-face", urlOf(dTtf)) >>) >>

DocGallery ==
    [nodes |->
        [n \in {"n1", "n2", "n3"} |->
            CASE n = "n1" -> Div(<<"n2", "n3">>, <<>>, <<>>, <<>>, <<>>)
              [] n = "n2" -> Img(bPng, <<"no-repeat">> \o urlOf(aPng))
              [] n = "n3" -> Img(aPng, <<>>)],
     styleSheets |-> GallerySheets,
     box |-> Box(8, 8, 0, 0, 0, 0)]

\* A form: a textarea and an input the user has typed into.
DocForm(text, line) ==
    [nodes |->
        [n \in {"n1", "n2", "n3", "n4"} |->
            CASE n = "n1" -> Div(<<"n2", "n3">>, <<>>, <<>>, <<>>, <<>>)
              [] n = "n2" -> TextArea(<<"n4">>, text)
              [] n = "n3" -> Input(<<"authored">>, line)
              [] n = "n4" -> TextNode],
     styleSheets |-> NoSheets,
     box |-> Box(9, 9, 0, 0, 0, 0)]

\* Two elements with pseudo-elements, one of them without a class.
DocPseudo ==
    [nodes |->
        [n \in {"n1", "n2"} |->
            CASE n = "n1" -> Div(<<"n2">>, <<>>, <<"x">>, <<"z">>, <<"k">>)
              [] n = "n2" -> Div(<<>>, <<>>, <<>>, <<"y">>, <<>>)],
     styleSheets |-> NoSheets,
     box |-> Box(4, 4, 0, 0, 0, 0)]

Docs == {DocTree, DocCanvas, DocImage, DocStyled, DocFonts, DocRootCanvas, DocNested}

Convs == {"A", "B"}

VARIABLES
    doc,          \* the host document being converted
    implOptions,  \* domtoimage.impl.options, shared by every call
    uidIndex,     \* the counter closed over by util.uid
    fetchLog,     \* every request getAndEncode has sent, in order
    pc,           \* per call: the position in the promise chain of toSvg/draw
    entry,        \* per call: the entry point, "toSvg" or "draw"
    opts,         \* per call: the options argument
    phase,        \* per call and source node: how far cloneNode(node) is
    clone,        \* per call and source node: the clone made of it
    filterCalls,  \* per call: the nodes the filter was evaluated on
    task,         \* per call and owner: an inlineAll / image inline in flight
    embed,        \* per call and source node: how far images.inlineAll(clone) is
    result        \* per call: what the returned promise settled with

vars == <<doc, implOptions, uidIndex, fetchLog, pc, entry, opts, phase, clone,
          filterCalls, task, embed, result>>

Nodes == DOMAIN doc.nodes
srcNode(n) == doc.nodes[n]
childNodes(n) == doc.nodes[n].childNodes
Range(s) == {s[i] : i \in 1..Len(s)}
parentOf(n) == CHOOSE p \in Nodes : n \in Range(childNodes(p))
isElement(kind) == kind # "text"


\* The nodes of the subtree of n, n included.
RECURSIVE subtree(_)
subtree(n) ==
    LET kids == childNodes(n)
        RECURSIVE under(_)
        under(i) == IF i > Len(kids) THEN {} ELSE subtree(kids[i]) \cup under(i + 1)
    IN  {n} \cup under(1)

-----------------------------------------------------------------------------
(* Options                                                                 *)

\* A boolean option is "true", "false" or absent ("undefined"); a filter is
\* absent or a predicate, given by the set of nodes it accepts.
Flags == {"undefined", "true"}
NoFilter == [present |-> FALSE, accepts |-> {}]
Filter(S) == [present |-> TRUE, accepts |-> S]

\* options.width, options.height: absent (<<>>) or a number (<<w>>);
\* options.bgcolor: absent or a colour; options.style: absent or the
\* properties of the object, in key order, each with its value.
noOptions ==
    [filter |-> NoFilter, imagePlaceholder |-> Undefined,
     cacheBust |-> "undefined", useCredentials |-> "undefined",
     width |-> <<>>, height |-> <<>>, bgcolor |-> <<>>, style |-> <<>>,
     scale |-> <<>>]

\* A number option in `if (x)` and `x || y`: absent and 0 are falsy.
truthy(x) == x # <<>> /\ x[1] # 0

placeholderPng == <<"data:", "image/png", ";base64", ",", "P">>
Placeholders == {Undefined, <<"oops">>, <<"data:", ",">>, placeholderPng}

\* var defaultOptions
defaultOptions ==
    [imagePlaceholder |-> Undefined, cacheBust |-> "false", useCredentials |-> "false"]

\* domtoimage.impl.options = {} : no property is defined yet.
emptyOptions ==
    [imagePlaceholder |-> Undefined, cacheBust |-> "undefined",
     useCredentials |-> "undefined"]

\* (copyOptions that keeps what an earlier call has set where this call
\* gives nothing.)
copyOptionsMerged(options) ==
    [imagePlaceholder |->
        IF options.imagePlaceholder = Undefined
        THEN implOptions.imagePlaceholder ELSE options.imagePlaceholder,
     cacheBust |->
        IF options.cacheBust = "undefined"
        THEN implOptions.cacheBust ELSE options.cacheBust,
     useCredentials |->
        IF options.useCredentials = "undefined"
        THEN implOptions.useCredentials ELSE options.useCredentials]

\* copyOptions(options): the new value of domtoimage.impl.options.
copyOptions(options) ==
    [imagePlaceholder |->
        IF options.imagePlaceholder = Undefined
        THEN defaultOptions.imagePlaceholder ELSE options.imagePlaceholder,
     cacheBust |->
        IF options.cacheBust = "undefined"
        THEN defaultOptions.cacheBust ELSE options.cacheBust,
     useCredentials |->
        IF options.useCredentials = "undefined"
        THEN defaultOptions.useCredentials ELSE options.useCredentials]

-----------------------------------------------------------------------------
(* Per-call state                                                          *)

\* A child of a clone: the clone of source node n ("node"), the style node
\* synthesized for a pseudo-element ("pseudo") or the style node that
\* carries the resolved fonts ("fonts"); `text` is a style node's text.
ChildNode(n) == [t |-> "node", n |-> n, text |-> <<>>]
StyleNode(t, n, text) == [t |-> t, n |-> n, text |-> text]

\* clone.style, as far as toSvg's overrides write it.
NoStyle == [backgroundColor |-> <<>>, width |-> <<>>, height |-> <<>>]

NoClone ==
    [exists |-> FALSE, kind |-> "none", children |-> <<>>, src |-> <<>>,
     background |-> <<>>, class |-> <<>>, style |-> NoStyle, value |-> <<>>]

\* An inlineAll (owner "bg" or "font") or an image inline (owner "img") in
\* flight: the text being rewritten, the text it started from, the urls
\* still to inline, the base url, the request it waits for or last waited
\* for, the event that ended that request and how getAndEncode's promise
\* settled on it, and the event that ended the decoding of an image.
NoRequest == [url |-> <<>>, withCredentials |-> FALSE, placeholder |-> Undefined]
NoOutcome == [state |-> "pending", value |-> <<>>]
NoTask ==
    [st |-> "none", string |-> <<>>, orig |-> <<>>, urls |-> <<>>,
     baseUrl |-> Undefined, request |-> NoRequest, event |-> "none",
     outcome |-> NoOutcome, decoded |-> "none"]

\* fontFaces.impl.readAll, getCssRules: the rules of every sheet that has
\* `cssRules` as an own property and lets it be read, each with the href of
\* its parentStyleSheet.
RECURSIVE getCssRules(_)
getCssRules(styleSheets) ==
    IF styleSheets = <<>> THEN <<>>
    ELSE LET sheet == Head(styleSheets)
             rules == IF sheet.own /\ ~sheet.throws
                      THEN [i \in 1..Len(sheet.cssRules) |->
                               [rule |-> sheet.cssRules[i], href |-> sheet.href]]
                      ELSE <<>>
         IN  rules \o getCssRules(Tail(styleSheets))

\* (Every font-face rule, whatever its src.)
selectFontFaceRules(cssRules) ==
    SelectSeq(cssRules, LAMBDA r : r.rule.type = "font-face")

\* readAll, selectWebFontRules
selectWebFontRules(cssRules) ==
    SelectSeq(SelectSeq(cssRules, LAMBDA r : r.rule.type = "font-face"),
              LAMBDA r : shouldProcess(r.rule.src))

webFonts == selectWebFontRules(getCssRules(doc.styleSheets))
FontOwners == {<<"font", ToString(i)>> : i \in 1..Len(webFonts)}
fontOwner(i) == <<"font", ToString(i)>>

\* The image util.makeImage decodes the finished svg with.
svgImage == <<"svg", "0">>

Owners ==
    ({"bg", "img"} \X Nodes) \cup FontOwners \cup {<<"top", "0">>, svgImage}

\* What the promise a call returned has settled with; `size` is the width
\* and height makeSvgDataUri was given.
Pending ==
    [state |-> "pending", value |-> <<>>, error |-> <<>>, size |-> <<>>,
     canvas |-> <<>>]

Init ==
    /\ doc \in Docs
    /\ implOptions = emptyOptions
    /\ uidIndex = 0
    /\ fetchLog = <<>>
    /\ pc = [c \in Convs |-> "idle"]
    /\ entry = [c \in Convs |-> "none"]
    /\ opts = [c \in Convs |-> noOptions]
    /\ phase = [c \in Convs |-> [n \in Nodes |-> "none"]]
    /\ clone = [c \in Convs |-> [n \in Nodes |-> NoClone]]
    /\ filterCalls = [c \in Convs |-> {}]
    /\ task = [c \in Convs |-> [o \in Owners |-> NoTask]]
    /\ embed = [c \in Convs |-> [n \in Nodes |-> "none"]]
    /\ result = [c \in Convs |-> Pending]

\* (A rejection that is recorded while the chain goes on.)
rejectSwallowed(c, error) ==
    /\ UNCHANGED pc
    /\ result' = [result EXCEPT
                    ![c] = [state |-> "rejected", value |-> <<>>, error |-> error,
                            size |-> <<>>, canvas |-> <<>>]]

\* The promise returned by the call rejects: every later fulfilment handler
\* of its chain is skipped.
reject(c, error) ==
    /\ pc' = [pc EXCEPT ![c] = "rejected"]
    /\ result' = [result EXCEPT
                    ![c] = [state |-> "rejected", value |-> <<>>, error |-> error,
                            size |-> <<>>, canvas |-> <<>>]]

-----------------------------------------------------------------------------
(* toSvg / draw: the call                                                  *)

\* (A call that leaves the shared options alone while another call is in
\* flight.)
toSvgIsolated(c, entryPoint, options) ==
    /\ pc[c] = "idle"
    /\ implOptions' =
          IF \E other \in Convs : pc[other] \notin {"idle", "serialized", "drawn", "rejected"}
          THEN implOptions ELSE copyOptions(options)
    /\ pc' = [pc EXCEPT ![c] = "cloneNode"]
    /\ entry' = [entry EXCEPT ![c] = entryPoint]
    /\ opts' = [opts EXCEPT ![c] = options]
    /\ UNCHANGED <<doc, uidIndex, fetchLog, phase, clone, filterCalls, task,
                   embed, result>>

\* (A raster call that does not go through copyOptions.)
toSvgVectorOnly(c, entryPoint, options) ==
    /\ pc[c] = "idle"
    /\ implOptions' = IF entryPoint = "draw" THEN implOptions ELSE copyOptions(options)
    /\ pc' = [pc EXCEPT ![c] = "cloneNode"]
    /\ entry' = [entry EXCEPT ![c] = entryPoint]
    /\ opts' = [opts EXCEPT ![c] = options]
    /\ UNCHANGED <<doc, uidIndex, fetchLog, phase, clone, filterCalls, task,
                   embed, result>>

\* toSvg(node, options), directly or through draw(domNode, options): the
\* synchronous part, copyOptions(options).  The chain then starts with
\* cloneNode(node, options.filter, true).
toSvg(c, entryPoint, options) ==
    /\ pc[c] = "idle"
    /\ implOptions' = copyOptions(options)
    /\ pc' = [pc EXCEPT ![c] = "cloneNode"]
    /\ entry' = [entry EXCEPT ![c] = entryPoint]
    /\ opts' = [opts EXCEPT ![c] = options]
    /\ UNCHANGED <<doc, uidIndex, fetchLog, phase, clone, filterCalls, task,
                   embed, result>>

-----------------------------------------------------------------------------
(* cloneNode                                                               *)

\* cloneNode(child) has settled and the handler that appends its result to
\* the parent clone has run.
settled(c, n) == phase[c][n] \in {"absent", "appended"}

\* (Children cloned side by side, as with Promise.all.)
previousIgnored(c, n) == TRUE

\* cloneChildrenInOrder: the handler that calls cloneNode(child, filter) is
\* chained on `done`, which the previous child's append resolves.
previousDone(c, n) ==
    LET kids == childNodes(parentOf(n))
    IN  \A i \in 1..Len(kids) : \A j \in 1..Len(kids) :
            (kids[j] = n /\ i < j) => settled(c, kids[i])

canStart(c, n) ==
    IF n = Root THEN TRUE
    ELSE phase[c][parentOf(n)] = "children" /\ previousDone(c, n)

\* (The filter test without `!root`.)
filterAppliesToRoot(c, n) == opts[c].filter.present

\* if (!root && filter && !filter(node)): whether the filter is evaluated.
filterApplies(c, n) == n # Root /\ opts[c].filter.present

\* (The filter test with its result ignored.)
filterRejectsNothing(c, n) == FALSE

\* if (!root && filter && !filter(node)) return Promise.resolve();
filterRejects(c, n) == filterApplies(c, n) /\ n \notin opts[c].filter.accepts

\* node.cloneNode(false): tag and attributes, no children.
shallowCopy(n) ==
    [exists |-> TRUE, kind |-> srcNode(n).kind, children |-> <<>>,
     src |-> srcNode(n).src, background |-> <<>>, class |-> srcNode(n).class,
     style |-> NoStyle, value |-> srcNode(n).attribute]

\* The image util.makeImage(node.toDataURL()) resolves with.
canvasImage(n) ==
    [exists |-> TRUE, kind |-> "img", children |-> <<>>,
     src |-> srcNode(n).dataUrl, background |-> <<>>, class |-> <<>>,
     style |-> NoStyle, value |-> <<>>]

\* cloneNode(node, filter, root) up to the first suspension: the filter
\* test and makeNodeCopy.  A canvas with pixels waits for its image to
\* load; a canvas without pixels has makeImage resolve with undefined.
cloneNode(c, n) ==
    /\ pc[c] = "cloneNode"
    /\ phase[c][n] = "none"
    /\ canStart(c, n)
    /\ filterCalls' = [filterCalls EXCEPT
                         ![c] = IF filterApplies(c, n) THEN @ \cup {n} ELSE @]
    /\ IF filterRejects(c, n)
       THEN /\ phase' = [phase EXCEPT ![c][n] = "absent"]
            /\ UNCHANGED clone
       ELSE IF srcNode(n).kind = "canvas"
       THEN IF srcNode(n).dataUrl = noPixels
            THEN /\ phase' = [phase EXCEPT ![c][n] = "children"]
                 /\ UNCHANGED clone
            ELSE /\ phase' = [phase EXCEPT ![c][n] = "copying"]
                 /\ UNCHANGED clone
       ELSE /\ phase' = [phase EXCEPT ![c][n] = "children"]
            /\ clone' = [clone EXCEPT ![c][n] = shallowCopy(n)]
    /\ UNCHANGED <<doc, implOptions, uidIndex, fetchLog, pc, entry, opts, task,
                   embed, result>>

\* makeImage: image.onload = function() { resolve(image); }
canvasImageLoad(c, n) ==
    /\ pc[c] = "cloneNode"
    /\ phase[c][n] = "copying"
    /\ phase' = [phase EXCEPT ![c][n] = "children"]
    /\ clone' = [clone EXCEPT ![c][n] = canvasImage(n)]
    /\ UNCHANGED <<doc, implOptions, uidIndex, fetchLog, pc, entry, opts,
                   filterCalls, task, embed, result>>

\* makeImage: image.onerror = reject
canvasImageError(c, n) ==
    /\ pc[c] = "cloneNode"
    /\ phase[c][n] = "copying"
    /\ reject(c, <<"error", "event">>)
    /\ UNCHANGED <<doc, implOptions, uidIndex, fetchLog, entry, opts, phase,
                   clone, filterCalls, task, embed>>


\* util.uid(): 'u' + fourRandomChars() + index++
RandomChars == {"aaaa", "zzzz"}
\* (The name without the counter.)
uidRandomOnly(random, index) == <<"u", random, "0">>

uid(random, index) == <<"u", random, ToString(index)>>

\* clonePseudoElement(element) on the state st = [clone, index] for a
\* pseudo-element whose computed `content` is `content`.
formatPseudoElementStyle(className, element, content) ==
    <<".">> \o className \o <<":", element, "{", "css", " ", "content:">>
    \o content \o <<";", "}">>

withClass(cl, className) ==
    IF cl.class # <<>> THEN [cl EXCEPT !.class = @ \o <<" ">> \o className] ELSE cl

\* (clonePseudoElement without its early return.)
clonePseudoElementAlways(st, n, element, content, random) ==
    LET className == uid(random, st.index)
        styleElement ==
            StyleNode("pseudo", n,
                      formatPseudoElementStyle(className, element, content))
    IN  [clone |-> [withClass(st.clone, className) EXCEPT
                       !.children = Append(@, styleElement)],
         index |-> st.index + 1]

clonePseudoElement(st, n, element, content, random) ==
    IF content = <<>> \/ content = <<"none">> THEN st
    ELSE LET className == uid(random, st.index)
             styleElement ==
                 StyleNode("pseudo", n,
                           formatPseudoElementStyle(className, element, content))
         IN  [clone |-> [withClass(st.clone, className) EXCEPT
                            !.children = Append(@, styleElement)],
              index |-> st.index + 1]

\* window.getComputedStyle(original): the properties toSvg's overrides can
\* write are at their initial values on every source node.
getComputedStyle(n) ==
    [backgroundColor |-> <<"transparent">>, width |-> <<"auto">>,
     height |-> <<"auto">>]

\* cloneStyle: the computed style of the original becomes the clone's style.
cloneStyle(cl, n) ==
    [cl EXCEPT !.background = srcNode(n).background,
               !.style = getComputedStyle(n)]

\* processClone(original, clone) for an Element clone.
\* The HTML parser on the text of a textarea: a character reference
\* becomes the character it names, any other text stays.
characterReference(token) ==
    CASE token = "&amp;" -> "&"
      [] token = "&lt;" -> "<"
      [] OTHER -> token

\* clone.innerHTML = html on a textarea: the children are replaced by the
\* parsed text, one text node unless the text is empty.
innerHTML(n, html) ==
    IF html = <<>> THEN <<>>
    ELSE <<StyleNode("text", n, [i \in 1..Len(html) |-> characterReference(html[i])])>>

\* processClone.copyUserInput
copyUserInput(cl, n) ==
    IF srcNode(n).kind = "textarea"
    THEN [cl EXCEPT !.children = innerHTML(n, srcNode(n).value)]
    ELSE IF srcNode(n).kind = "input"
    THEN [cl EXCEPT !.value = srcNode(n).value]
    ELSE cl

processed(cl, n, index, rb, ra) ==
    LET styled == [clone |-> cloneStyle(cl, n), index |-> index]
        before == clonePseudoElement(styled, n, ":before", srcNode(n).before, rb)
        after == clonePseudoElement(before, n, ":after", srcNode(n).after, ra)
    IN  [after EXCEPT !.clone = copyUserInput(@, n)]

\* (processClone not waiting for cloneChildren.)
childrenIgnored(c, n) == TRUE

\* cloneNode: processClone is chained on cloneChildren, whose promise is
\* the `done` of the last child's append.
childrenAttached(c, n) == \A k \in Range(childNodes(n)) : settled(c, k)

\* cloneChildren has resolved (every child is cloned and appended, in
\* order) and processClone runs.  A clone that is no Element -- a text node,
\* or the undefined of a canvas without pixels -- is returned as it is.
processClone(c, n) ==
    /\ pc[c] = "cloneNode"
    /\ phase[c][n] = "children"
    /\ childrenAttached(c, n)
    /\ IF ~clone[c][n].exists
       THEN /\ phase' = [phase EXCEPT ![c][n] = "absent"]
            /\ UNCHANGED <<clone, uidIndex>>
       ELSE IF ~isElement(clone[c][n].kind)
       THEN /\ phase' = [phase EXCEPT ![c][n] = "resolved"]
            /\ UNCHANGED <<clone, uidIndex>>
       ELSE \E rb \in RandomChars, ra \in RandomChars :
              LET st == processed(clone[c][n], n, uidIndex, rb, ra)
              IN  /\ phase' = [phase EXCEPT ![c][n] = "resolved"]
                  /\ clone' = [clone EXCEPT ![c][n] = st.clone]
                  /\ uidIndex' = st.index
    /\ UNCHANGED <<doc, implOptions, fetchLog, pc, entry, opts, filterCalls,
                   task, embed, result>>

\* cloneChildrenInOrder: if (childClone) parent.appendChild(childClone).
\* The parent clone of a canvas without pixels is undefined and the call
\* throws.
appendChild(c, n) ==
    /\ pc[c] = "cloneNode"
    /\ n # Root
    /\ phase[c][n] = "resolved"
    /\ IF clone[c][parentOf(n)].exists
       THEN /\ phase' = [phase EXCEPT ![c][n] = "appended"]
            /\ clone' = [clone EXCEPT
                           ![c][parentOf(n)].children = Append(@, ChildNode(n))]
            /\ UNCHANGED <<pc, result>>
       ELSE /\ reject(c, <<"TypeError">>)
            /\ UNCHANGED <<phase, clone>>
    /\ UNCHANGED <<doc, implOptions, uidIndex, fetchLog, entry, opts,
                   filterCalls, task, embed>>

-----------------------------------------------------------------------------
(* inliner.inlineAll and util.getAndEncode                                 *)

\* inlineAll(string, baseUrl) up to the first fetch: nothingToInline, then
\* readUrls.
inlineAll(string, baseUrl) ==
    IF ~shouldProcess(string)
    THEN [NoTask EXCEPT !.st = "done", !.string = string, !.orig = string]
    ELSE [NoTask EXCEPT
             !.st = IF readUrls(string) = <<>> THEN "done" ELSE "ready",
             !.string = string, !.orig = string, !.urls = readUrls(string),
             !.baseUrl = baseUrl]

TIMEOUT == 30000
OK == 200

\* getAndEncode: the url requested -- with cacheBust, the time is appended.
requestUrl(url, options) ==
    IF options.cacheBust = "true"
    THEN url \o <<IF "?" \in Range(url) THEN "&" ELSE "?", "now">>
    ELSE url

\* (The placeholder taken whole instead of its payload.)
placeholderWhole(options) ==
    IF options.imagePlaceholder # Undefined /\ options.imagePlaceholder # <<>>
    THEN options.imagePlaceholder ELSE Undefined

\* getAndEncode: var placeholder
placeholderOf(options) ==
    IF options.imagePlaceholder # Undefined /\ options.imagePlaceholder # <<>>
    THEN LET pieces == split(options.imagePlaceholder)
         IN  IF Len(pieces) >= 2 /\ pieces[2] # <<>> THEN pieces[2] ELSE Undefined
    ELSE Undefined

\* getAndEncode(url): the request sent, under the shared options as they
\* are at the call.
getAndEncode(url, options) ==
    [url |-> requestUrl(url, options),
     withCredentials |-> (options.useCredentials = "true"),
     placeholder |-> placeholderOf(options)]

resolve(value) == [state |-> "fulfilled", value |-> value]

\* getAndEncode.fail(message): console.error(message); resolve('')
fail(message) == resolve(<<>>)

\* FileReader.readAsDataURL(request.response)
readAsDataURL(body) == <<"data:", "application/octet-stream", ";base64", ",">> \o body

\* getAndEncode.done with readyState 4: how the promise settles.
done(request, status, body) ==
    IF status # OK
    THEN IF request.placeholder # Undefined
         THEN resolve(request.placeholder)
         ELSE fail([what |-> "cannot fetch resource", url |-> request.url,
                    status |-> status])
    ELSE resolve(split(readAsDataURL(body))[2])

\* (A timeout that fails whatever the placeholder.)
timeoutFails(request) ==
    fail([what |-> "timeout", url |-> request.url, status |-> TIMEOUT])

\* getAndEncode.timeout
timeout(request) ==
    IF request.placeholder # Undefined
    THEN resolve(request.placeholder)
    ELSE fail([what |-> "timeout", url |-> request.url, status |-> TIMEOUT])

\* What the host answers: a status (200, 404, or 0 when the request never
\* got an answer) and, with 200, the bytes of the resource.
Statuses == {OK, 404, 0}
Bodies == {<<"B">>}

\* inline(string, url, baseUrl): the url that is fetched.
fetchedUrl(t) ==
    IF t.baseUrl # Undefined /\ t.baseUrl # <<>>
    THEN resolveUrl(Head(t.urls), t.baseUrl) ELSE Head(t.urls)

\* The handlers of a call's chain run until it rejects; an inlineAll called
\* on its own ("top") belongs to no chain.
active(c, o) == o[1] = "top" \/ pc[c] \notin {"idle", "rejected"}

\* (Every inline started at once, as with urls.map(inline).)
previousPending(c, o) == task[c][o].st \in {"ready", "fetching"}

\* inlineAll: the handler that calls inline for a url is chained on `done`,
\* the promise of the previous url's inline.
previousInlined(c, o) == task[c][o].st = "ready"

\* inlineAll's next inline(string, url, baseUrl): getAndEncode is called.
inline(c, o) ==
    /\ active(c, o)
    /\ o[1] # "img"
    /\ previousInlined(c, o)
    /\ LET request == getAndEncode(fetchedUrl(task[c][o]), implOptions)
       IN  /\ task' = [task EXCEPT ![c][o].st = "fetching",
                                   ![c][o].request = request]
           /\ fetchLog' = Append(fetchLog, [c |-> c, o |-> o, request |-> request])
    /\ UNCHANGED <<doc, implOptions, uidIndex, pc, entry, opts, phase, clone,
                   filterCalls, embed, result>>

\* (One `element` shared by every newImage: the image whose request was
\* sent last.)
imageSourceShared(c, n) ==
    LET sent == SelectSeq(fetchLog, LAMBDA e : e.c = c /\ e.o[1] = "img")
    IN  clone[c][sent[Len(sent)].o[2]].src

\* newImage(element).inline: element.src, read for the mime type when the
\* answer has come.
imageSource(c, n) == clone[c][n].src

\* The handlers chained on getAndEncode's promise, given how it settled.
\* inline: dataAsUrl, then string.replace; newImage.inline: dataAsUrl, then
\* element.src = dataUrl and the wait for load or error.
settle(c, o, event, outcome) ==
    IF outcome.state = "rejected"
    THEN /\ task' = [task EXCEPT ![c][o].st = "rejected", ![c][o].event = event,
                                 ![c][o].outcome = outcome]
         /\ UNCHANGED clone
         /\ IF o[1] = "top" THEN UNCHANGED <<pc, result>>
            ELSE reject(c, outcome.value)
    ELSE /\ UNCHANGED <<pc, result>>
         /\ IF o[1] = "img"
            THEN LET dataUrl == dataAsUrl(outcome.value, mimeType(imageSource(c, o[2])))
                 IN  /\ clone' = [clone EXCEPT ![c][o[2]].src = dataUrl]
                     /\ task' = [task EXCEPT ![c][o].st = "loading",
                                             ![c][o].event = event,
                                             ![c][o].outcome = outcome]
            ELSE LET t == task[c][o]
                     url == Head(t.urls)
                     dataUrl == dataAsUrl(outcome.value, mimeType(url))
                 IN  /\ task' = [task EXCEPT
                            ![c][o].string = replaceUrl(t.string, 1, url, dataUrl),
                            ![c][o].urls = Tail(t.urls),
                            ![c][o].st = IF Tail(t.urls) = <<>> THEN "done"
                                         ELSE "ready",
                            ![c][o].event = event,
                            ![c][o].outcome = outcome]
                     /\ UNCHANGED clone

\* request.onreadystatechange with readyState 4.
requestDone(c, o, status, body) ==
    /\ active(c, o)
    /\ task[c][o].st = "fetching"
    /\ settle(c, o, IF status = OK THEN "success" ELSE "status",
              done(task[c][o].request, status, body))
    /\ UNCHANGED <<doc, implOptions, uidIndex, fetchLog, entry, opts, phase,
                   filterCalls, embed>>

\* The request times out.  The host runs request.ontimeout; a host that
\* first reports readyState 4 (with status 0) has `done` settle the promise
\* before `timeout` runs.
requestTimeout(c, o, doneFirst) ==
    /\ active(c, o)
    /\ task[c][o].st = "fetching"
    /\ settle(c, o, "timeout",
              IF doneFirst THEN done(task[c][o].request, 0, <<>>)
              ELSE timeout(task[c][o].request))
    /\ UNCHANGED <<doc, implOptions, uidIndex, fetchLog, entry, opts, phase,
                   filterCalls, embed>>


-----------------------------------------------------------------------------
(* embedFonts: fontFaces.resolveAll                                        *)

\* cloneNode(node, options.filter, true) has resolved: embedFonts calls
\* fontFaces.resolveAll(), which starts webFont.resolve() for every
\* selected rule.
embedFonts(c) ==
    /\ pc[c] = "cloneNode"
    /\ phase[c][Root] \in {"resolved", "absent"}
    /\ pc' = [pc EXCEPT ![c] = "embedFonts"]
    /\ task' = [task EXCEPT ![c] =
                  [o \in Owners |->
                      IF o \in FontOwners
                      THEN LET i == CHOOSE k \in 1..Len(webFonts) : fontOwner(k) = o
                           IN  inlineAll(webFonts[i].rule.cssText, webFonts[i].href)
                      ELSE @[o]]]
    /\ UNCHANGED <<doc, implOptions, uidIndex, fetchLog, entry, opts, phase,
                   clone, filterCalls, embed, result>>

\* (The texts joined last to first.)
RECURSIVE joinReversed(_)
joinReversed(strings) ==
    IF strings = <<>> THEN <<>>
    ELSE IF Len(strings) = 1 THEN strings[1]
    ELSE joinReversed(Tail(strings)) \o <<"\\n">> \o strings[1]

\* cssStrings.join('\n')
RECURSIVE join(_)
join(strings) ==
    IF strings = <<>> THEN <<>>
    ELSE IF Len(strings) = 1 THEN strings[1]
    ELSE strings[1] \o <<"\\n">> \o join(Tail(strings))

\* images.inlineAll(node) called on the clones in S: a node that is no
\* Element resolves at once, an Element starts inlineBackground.
hasBackground(c, n) == clone[c][n].background # <<>>

embedStarted(c, S) ==
    [n \in Nodes |->
        IF n \in S
        THEN IF isElement(clone[c][n].kind) THEN "background" ELSE "done"
        ELSE embed[c][n]]

backgroundsStarted(c, S) ==
    [o \in Owners |->
        IF o[1] = "bg" /\ o[2] \in S /\ isElement(clone[c][o[2]].kind)
           /\ hasBackground(c, o[2])
        THEN inlineAll(clone[c][o[2]].background, Undefined)
        ELSE task[c][o]]

\* Promise.all of the rules has resolved: the style node with the joined
\* text is appended to the clone (which throws when the root's clone is
\* undefined), and inlineImages calls images.inlineAll(clone).
fontsResolved(c) ==
    /\ pc[c] = "embedFonts"
    /\ \A o \in FontOwners : task[c][o].st = "done"
    /\ IF clone[c][Root].exists
       THEN LET cssText == join([i \in 1..Len(webFonts) |->
                                    task[c][fontOwner(i)].string])
            IN  /\ clone' = [clone EXCEPT ![c][Root].children =
                               Append(@, StyleNode("fonts", Root, cssText))]
                /\ pc' = [pc EXCEPT ![c] = "inlineImages"]
                /\ embed' = [embed EXCEPT ![c] = embedStarted(c, {Root})]
                /\ task' = [task EXCEPT ![c] = backgroundsStarted(c, {Root})]
                /\ UNCHANGED result
       ELSE /\ reject(c, <<"TypeError">>)
            /\ UNCHANGED <<clone, embed, task>>
    /\ UNCHANGED <<doc, implOptions, uidIndex, fetchLog, entry, opts, phase,
                   filterCalls>>

-----------------------------------------------------------------------------
(* images.inlineAll                                                        *)

\* The clones of source nodes among the childNodes of n's clone.  (The
\* synthesized style nodes are Elements without a background and with one
\* text child: images.inlineAll resolves on them without any effect.)
cloneKids(c, n) ==
    {clone[c][n].children[i].n :
        i \in {k \in 1..Len(clone[c][n].children) : clone[c][n].children[k].t = "node"}}

\* inlineBackground(node) has resolved -- node.style.setProperty with the
\* inlined text when there was a background -- and the next handler runs:
\* newImage(node).inline() on an image, inlineAll(child) on every child
\* otherwise.
inlineAllBody(c, n) ==
    /\ pc[c] = "inlineImages"
    /\ embed[c][n] = "background"
    /\ task[c][<<"bg", n>>].st \in {"none", "done"}
    /\ LET background == IF task[c][<<"bg", n>>].st = "done"
                         THEN task[c][<<"bg", n>>].string
                         ELSE clone[c][n].background
       IN  IF clone[c][n].kind = "img"
           THEN IF isDataUrl(clone[c][n].src)
                THEN /\ embed' = [embed EXCEPT ![c][n] = "done"]
                     /\ clone' = [clone EXCEPT ![c][n].background = background]
                     /\ UNCHANGED <<task, fetchLog>>
                ELSE LET request == getAndEncode(clone[c][n].src, implOptions)
                     IN  /\ embed' = [embed EXCEPT ![c][n] = "image"]
                         /\ clone' = [clone EXCEPT ![c][n].background = background]
                         /\ task' = [task EXCEPT
                                       ![c][<<"img", n>>].st = "fetching",
                                       ![c][<<"img", n>>].request = request]
                         /\ fetchLog' = Append(fetchLog,
                                [c |-> c, o |-> <<"img", n>>, request |-> request])
           ELSE /\ embed' = [embed EXCEPT ![c] =
                               [embedStarted(c, cloneKids(c, n)) EXCEPT
                                   ![n] = "children"]]
                /\ clone' = [clone EXCEPT ![c][n].background = background]
                /\ task' = [task EXCEPT ![c] = backgroundsStarted(c, cloneKids(c, n))]
                /\ UNCHANGED fetchLog
    /\ UNCHANGED <<doc, implOptions, uidIndex, pc, entry, opts, phase,
                   filterCalls, result>>

\* newImage.inline: element.onload = resolve
imageLoad(c, n) ==
    /\ pc[c] = "inlineImages"
    /\ task[c][<<"img", n>>].st = "loading"
    /\ task' = [task EXCEPT ![c][<<"img", n>>].st = "done",
                            ![c][<<"img", n>>].decoded = "load"]
    /\ embed' = [embed EXCEPT ![c][n] = "done"]
    /\ UNCHANGED <<doc, implOptions, uidIndex, fetchLog, pc, entry, opts, phase,
                   clone, filterCalls, result>>

\* (An image that fails to decode fails the call.)
imageErrorRejects(c, n) ==
    /\ pc[c] = "inlineImages"
    /\ task[c][<<"img", n>>].st = "loading"
    /\ task' = [task EXCEPT ![c][<<"img", n>>].st = "rejected",
                            ![c][<<"img", n>>].decoded = "error"]
    /\ reject(c, <<"error", "event">>)
    /\ UNCHANGED <<doc, implOptions, uidIndex, fetchLog, entry, opts, phase,
                   clone, filterCalls, embed>>

\* (No handler for the error event: the promise of inline stays pending.)
imageErrorUnhandled(c, n) ==
    /\ pc[c] = "inlineImages"
    /\ task[c][<<"img", n>>].st = "loading"
    /\ task' = [task EXCEPT ![c][<<"img", n>>].st = "errored",
                            ![c][<<"img", n>>].decoded = "error"]
    /\ UNCHANGED <<doc, implOptions, uidIndex, fetchLog, pc, entry, opts, phase,
                   clone, filterCalls, embed, result>>

\* newImage.inline: element.onerror = resolve
imageError(c, n) ==
    /\ pc[c] = "inlineImages"
    /\ task[c][<<"img", n>>].st = "loading"
    /\ task' = [task EXCEPT ![c][<<"img", n>>].st = "done",
                            ![c][<<"img", n>>].decoded = "error"]
    /\ embed' = [embed EXCEPT ![c][n] = "done"]
    /\ UNCHANGED <<doc, implOptions, uidIndex, fetchLog, pc, entry, opts, phase,
                   clone, filterCalls, result>>

\* (The first child to resolve resolves the parent, as with Promise.race.)
anyChildEmbedded(c, n) ==
    cloneKids(c, n) = {} \/ \E k \in cloneKids(c, n) : embed[c][k] = "done"

\* images.inlineAll: Promise.all over inlineAll(child) of every child.
allChildrenEmbedded(c, n) == \A k \in cloneKids(c, n) : embed[c][k] = "done"

\* Promise.all over the children has resolved.
childrenInlined(c, n) ==
    /\ pc[c] = "inlineImages"
    /\ embed[c][n] = "children"
    /\ allChildrenEmbedded(c, n)
    /\ embed' = [embed EXCEPT ![c][n] = "done"]
    /\ UNCHANGED <<doc, implOptions, uidIndex, fetchLog, pc, entry, opts, phase,
                   clone, filterCalls, task, result>>


-----------------------------------------------------------------------------
(* applyOptions, makeSvgDataUri, draw                                      *)

\* (inlineImages returning the clone without waiting.)
imagesNotAwaited(c) == TRUE

\* inlineImages: images.inlineAll(node).then(...) -- the promise of
\* images.inlineAll(clone) has resolved.
imagesInlined(c) == embed[c][Root] = "done"

\* images.inlineAll(clone) has resolved: inlineImages returns the clone to
\* applyOptions.
inlineImages(c) ==
    /\ pc[c] = "inlineImages"
    /\ imagesInlined(c)
    /\ pc' = [pc EXCEPT ![c] = "applyOptions"]
    /\ UNCHANGED <<doc, implOptions, uidIndex, fetchLog, entry, opts, phase,
                   clone, filterCalls, task, embed, result>>

\* options.width + 'px'
withPx(w) == digitsOf(w) \o <<"px">>

\* Object.keys(options.style).forEach(... clone.style[property] = ...)
RECURSIVE patched(_, _)
patched(style, patch) ==
    IF patch = <<>> THEN style
    ELSE patched([style EXCEPT ![Head(patch).property] = Head(patch).value],
                 Tail(patch))

\* (The style patch written first, the three overrides after it.)
overriddenPatchFirst(style, options) ==
    LET first == patched(style, options.style)
        coloured == IF options.bgcolor # <<>>
                    THEN [first EXCEPT !.backgroundColor = options.bgcolor]
                    ELSE first
        widened == IF truthy(options.width)
                   THEN [coloured EXCEPT !.width = withPx(options.width[1])]
                   ELSE coloured
    IN  IF truthy(options.height)
        THEN [widened EXCEPT !.height = withPx(options.height[1])]
        ELSE widened

\* toSvg.applyOptions: the style of the clone after the overrides, written
\* in the order bgcolor, width, height, style.
overridden(style, options) ==
    LET coloured == IF options.bgcolor # <<>>
                    THEN [style EXCEPT !.backgroundColor = options.bgcolor]
                    ELSE style
        widened == IF truthy(options.width)
                   THEN [coloured EXCEPT !.width = withPx(options.width[1])]
                   ELSE coloured
        heightened == IF truthy(options.height)
                      THEN [widened EXCEPT !.height = withPx(options.height[1])]
                      ELSE widened
    IN  patched(heightened, options.style)

\* (The overrides written to the node that was given to toSvg.)
applyOptionsInPlace(c) ==
    /\ pc[c] = "applyOptions"
    /\ pc' = [pc EXCEPT ![c] = "makeSvgDataUri"]
    /\ doc' = [doc EXCEPT !.nodes[Root].background =
                  overridden(NoStyle, opts[c]).backgroundColor]
    /\ UNCHANGED <<implOptions, uidIndex, fetchLog, entry, opts, phase,
                   clone, filterCalls, task, embed, result>>

\* toSvg.applyOptions(clone)
applyOptions(c) ==
    /\ pc[c] = "applyOptions"
    /\ pc' = [pc EXCEPT ![c] = "makeSvgDataUri"]
    /\ clone' = [clone EXCEPT
                   ![c][Root].style = overridden(clone[c][Root].style, opts[c])]
    /\ UNCHANGED <<doc, implOptions, uidIndex, fetchLog, entry, opts, phase,
                   filterCalls, task, embed, result>>

\* (The larger of the explicit and the measured dimension.)
dimensionLarger(explicit, measured) ==
    IF explicit # <<>> /\ explicit[1] > measured THEN explicit[1] ELSE measured

\* toSvg: options.width || util.width(node)
dimension(explicit, measured) == IF truthy(explicit) THEN explicit[1] ELSE measured

\* new XMLSerializer().serializeToString(node): the clone tree in document
\* order, every element with what it carries.
RECURSIVE serializeToString(_, _)
serializeToString(c, n) ==
    LET cl == clone[c][n]
        RECURSIVE inner(_)
        inner(i) ==
            IF i > Len(cl.children) THEN <<>>
            ELSE (IF cl.children[i].t = "node"
                  THEN serializeToString(c, cl.children[i].n)
                  ELSE <<[tag |-> IF cl.children[i].t = "text" THEN "#text" ELSE "style",
                          n |-> cl.children[i].n, src |-> <<>>,
                          background |-> <<>>, class |-> <<>>,
                          text |-> cl.children[i].text]>>)
                 \o inner(i + 1)
    IN  <<[tag |-> cl.kind, n |-> n, src |-> cl.src, background |-> cl.background,
           class |-> cl.class, text |-> <<>>]>>
        \o inner(1)
        \o <<[tag |-> "/", n |-> n, src |-> <<>>, background |-> <<>>,
              class |-> <<>>, text |-> <<>>]>>

\* makeSvgDataUri(clone, width, height): the promise of toSvg resolves with
\* the data URI of the svg.
makeSvgDataUri(c) ==
    /\ pc[c] = "makeSvgDataUri"
    /\ pc' = [pc EXCEPT ![c] = "serialized"]
    /\ result' = [result EXCEPT ![c] =
                    [@ EXCEPT
                        !.state = IF entry[c] = "toSvg" THEN "fulfilled" ELSE @,
                        !.value = serializeToString(c, Root),
                        !.size = <<dimension(opts[c].width, width(doc.box)),
                                   dimension(opts[c].height, height(doc.box))>>]]
    /\ UNCHANGED <<doc, implOptions, uidIndex, fetchLog, entry, opts, phase,
                   clone, filterCalls, task, embed>>

\* draw: .then(util.makeImage) -- the svg is given to an Image to decode.
makeImage(c) ==
    /\ pc[c] = "serialized"
    /\ entry[c] = "draw"
    /\ pc' = [pc EXCEPT ![c] = "makeImage"]
    /\ task' = [task EXCEPT ![c][svgImage].st = "loading"]
    /\ UNCHANGED <<doc, implOptions, uidIndex, fetchLog, entry, opts, phase,
                   clone, filterCalls, embed, result>>

\* makeImage: image.onload, then util.delay(100) sets its timer.
svgImageLoad(c) ==
    /\ pc[c] = "makeImage"
    /\ pc' = [pc EXCEPT ![c] = "delay"]
    /\ task' = [task EXCEPT ![c][svgImage].st = "done",
                            ![c][svgImage].decoded = "load"]
    /\ UNCHANGED <<doc, implOptions, uidIndex, fetchLog, entry, opts, phase,
                   clone, filterCalls, embed, result>>

\* (A decoding failure answered with the placeholder, when there is one.)
svgImageErrorPlaceholder(c) ==
    /\ pc[c] = "makeImage"
    /\ task' = [task EXCEPT ![c][svgImage].st = "rejected",
                            ![c][svgImage].decoded = "error"]
    /\ IF implOptions.imagePlaceholder # Undefined
       THEN pc' = [pc EXCEPT ![c] = "delay"] /\ UNCHANGED result
       ELSE reject(c, <<"error", "event">>)
    /\ UNCHANGED <<doc, implOptions, uidIndex, fetchLog, entry, opts, phase,
                   clone, filterCalls, embed>>

\* makeImage: image.onerror = reject
svgImageError(c) ==
    /\ pc[c] = "makeImage"
    /\ task' = [task EXCEPT ![c][svgImage].st = "rejected",
                            ![c][svgImage].decoded = "error"]
    /\ reject(c, <<"error", "event">>)
    /\ UNCHANGED <<doc, implOptions, uidIndex, fetchLog, entry, opts, phase,
                   clone, filterCalls, embed>>

\* util.delay(100): the timer fires and resolves the promise with the
\* image.
delayFires(c) ==
    /\ pc[c] = "delay"
    /\ pc' = [pc EXCEPT ![c] = "delayed"]
    /\ UNCHANGED <<doc, implOptions, uidIndex, fetchLog, entry, opts, phase,
                   clone, filterCalls, task, embed, result>>

\* A number is a pair <<numerator, denominator>>; any other value of an
\* option is not of type 'number'.
isNumber(x) == Len(x) = 2

\* (options.scale || 1)
scaleOrOne(options) ==
    IF isNumber(options.scale) /\ options.scale[1] # 0 THEN options.scale ELSE <<1, 1>>

\* draw: typeof(options.scale) !== 'number' ? 1 : options.scale
scaleOf(options) == IF isNumber(options.scale) THEN options.scale ELSE <<1, 1>>

\* canvas.width = value * scale: the attribute is an unsigned long, the
\* host keeps the integer part of the product.
toUnsignedLong(value, scale) == (value * scale[1]) \div scale[2]

\* draw.newCanvas(domNode, scale)
newCanvas(c, scale) ==
    <<toUnsignedLong(dimension(opts[c].width, width(doc.box)), scale),
      toUnsignedLong(dimension(opts[c].height, height(doc.box)), scale)>>

\* (The canvas made without waiting for the timer.)
delayIgnored(c) == pc[c] \in {"delay", "delayed"}

\* draw: the last handler is chained on the promise of util.delay(100).
delayFired(c) == pc[c] = "delayed"

\* The last handler of draw makes the canvas and puts the image on it.
drawImage(c) ==
    /\ delayFired(c)
    /\ pc' = [pc EXCEPT ![c] = "drawn"]
    /\ result' = [result EXCEPT ![c].state = "fulfilled",
                                ![c].canvas = newCanvas(c, scaleOf(opts[c]))]
    /\ UNCHANGED <<doc, implOptions, uidIndex, fetchLog, entry, opts, phase,
                   clone, filterCalls, task, embed>>

-----------------------------------------------------------------------------
(* A conversion of the document                                            *)

\* The options tried on the document: every filter with the other options
\* left out, and every combination of the other options without a filter.
Filters == {NoFilter} \cup {Filter(S) : S \in SUBSET Nodes}
Sizes == {<<>>, <<0>>, <<100>>, <<300>>}
Colours == {<<>>, <<"red">>}
Patches ==
    {<<>>,
     <<[property |-> "width", value |-> <<"7", "px">>],
       [property |-> "backgroundColor", value |-> <<"blue">>]>>}

Scales == {<<>>, <<0, 1>>, <<2, 1>>, <<1, 2>>, <<"2">>}

CallOptions ==
    {[noOptions EXCEPT !.filter = f] : f \in Filters}
    \cup {[noOptions EXCEPT !.imagePlaceholder = p, !.cacheBust = b,
                            !.useCredentials = u] :
             p \in Placeholders, b \in Flags, u \in Flags}
    \cup {[noOptions EXCEPT !.width = w, !.height = h] : w \in Sizes, h \in Sizes}
    \cup {[noOptions EXCEPT !.width = w, !.bgcolor = b, !.style = s] :
             w \in {<<>>, <<100>>}, b \in Colours, s \in Patches}
    \cup {[noOptions EXCEPT !.height = h, !.scale = k] :
             h \in {<<>>, <<25>>}, k \in Scales}

Call ==
    \E entryPoint \in {"toSvg", "draw"}, options \in CallOptions :
        /\ \A c \in Convs : pc[c] = "idle"
        /\ toSvg("A", entryPoint, options)

Next ==
    \/ Call
    \/ \E c \in Convs, n \in Nodes : cloneNode(c, n)
    \/ \E c \in Convs, n \in Nodes : canvasImageLoad(c, n)
    \/ \E c \in Convs, n \in Nodes : canvasImageError(c, n)
    \/ \E c \in Convs, n \in Nodes : processClone(c, n)
    \/ \E c \in Convs, n \in Nodes : appendChild(c, n)
    \/ \E c \in Convs : embedFonts(c)
    \/ \E c \in Convs, o \in Owners : inline(c, o)
    \/ \E c \in Convs, o \in Owners, status \in Statuses, body \in Bodies :
          requestDone(c, o, status, body)
    \/ \E c \in Convs, o \in Owners, doneFirst \in BOOLEAN :
          requestTimeout(c, o, doneFirst)
    \/ \E c \in Convs : fontsResolved(c)
    \/ \E c \in Convs, n \in Nodes : inlineAllBody(c, n)
    \/ \E c \in Convs, n \in Nodes : imageLoad(c, n)
    \/ \E c \in Convs, n \in Nodes : imageError(c, n)
    \/ \E c \in Convs, n \in Nodes : childrenInlined(c, n)
    \/ \E c \in Convs : inlineImages(c)
    \/ \E c \in Convs : applyOptions(c)
    \/ \E c \in Convs : makeSvgDataUri(c)
    \/ \E c \in Convs : makeImage(c)
    \/ \E c \in Convs : svgImageLoad(c)
    \/ \E c \in Convs : svgImageError(c)
    \/ \E c \in Convs : delayFires(c)
    \/ \E c \in Convs : drawImage(c)

Spec == Init /\ [][Next]_vars

\* The calls of the termination check: either entry point, with and without
\* a placeholder.
CallLive ==
    \E entryPoint \in {"toSvg", "draw"},
       options \in {[noOptions EXCEPT !.imagePlaceholder = p] : p \in Placeholders} :
        /\ \A c \in Convs : pc[c] = "idle"
        /\ toSvg("A", entryPoint, options)

NextLive ==
    \/ CallLive
    \/ \E c \in Convs, n \in Nodes : cloneNode(c, n)
    \/ \E c \in Convs, n \in Nodes : canvasImageLoad(c, n)
    \/ \E c \in Convs, n \in Nodes : canvasImageError(c, n)
    \/ \E c \in Convs, n \in Nodes : processClone(c, n)
    \/ \E c \in Convs, n \in Nodes : appendChild(c, n)
    \/ \E c \in Convs : embedFonts(c)
    \/ \E c \in Convs, o \in Owners : inline(c, o)
    \/ \E c \in Convs, o \in Owners, status \in Statuses, body \in Bodies :
          requestDone(c, o, status, body)
    \/ \E c \in Convs, o \in Owners, doneFirst \in BOOLEAN :
          requestTimeout(c, o, doneFirst)
    \/ \E c \in Convs : fontsResolved(c)
    \/ \E c \in Convs, n \in Nodes : inlineAllBody(c, n)
    \/ \E c \in Convs, n \in Nodes : imageLoad(c, n)
    \/ \E c \in Convs, n \in Nodes : imageError(c, n)
    \/ \E c \in Convs, n \in Nodes : childrenInlined(c, n)
    \/ \E c \in Convs : inlineImages(c)
    \/ \E c \in Convs : applyOptions(c)
    \/ \E c \in Convs : makeSvgDataUri(c)
    \/ \E c \in Convs : makeImage(c)
    \/ \E c \in Convs : svgImageLoad(c)
    \/ \E c \in Convs : svgImageError(c)
    \/ \E c \in Convs : delayFires(c)
    \/ \E c \in Convs : drawImage(c)

\* The same program where no step of a conversion in flight is put off for
\* ever: the job queue runs every continuation that is ready, every request
\* that was sent is answered or times out, every image whose source was set
\* fires load or error, and the timer of delay fires.
SpecLive ==
    /\ Init
    /\ [][NextLive]_vars
    /\ WF_vars(NextLive /\ \E c \in Convs : pc[c] # "idle")

-----------------------------------------------------------------------------
(* inliner.inlineAll called on its own                                     *)

MaxParts == 3

\* The texts inlineAll is given: up to MaxParts pieces, each a token of the
\* url(...) syntax or a whole reference.
Pieces ==
    {<<"url(">>, <<")">>, <<"a">>,
     urlOf(<<"a">>), <<"url(", "sq", "b", ".", "png", "sq", ")">>,
     urlOf(<<"data:", "a">>)}

RECURSIVE TextsOf(_)
TextsOf(k) ==
    IF k = 0 THEN {<<>>}
    ELSE TextsOf(k - 1) \cup {t \o q : t \in TextsOf(k - 1), q \in Pieces}

Texts == TextsOf(MaxParts)
BaseUrls == {Undefined, <<"http:", "/", "h", "/", "s", ".", "css">>}
top == <<"top", "0">>

\* The shared options are as some earlier call has left them.
InitInline ==
    /\ doc = DocImage
    /\ implOptions \in {emptyOptions}
           \cup {copyOptions(o) : o \in [imagePlaceholder : {placeholderPng},
                                        cacheBust : {"true"},
                                        useCredentials : {"undefined"}]}
    /\ uidIndex = 0
    /\ fetchLog = <<>>
    /\ pc = [c \in Convs |-> "idle"]
    /\ entry = [c \in Convs |-> "none"]
    /\ opts = [c \in Convs |-> noOptions]
    /\ phase = [c \in Convs |-> [n \in Nodes |-> "none"]]
    /\ clone = [c \in Convs |-> [n \in Nodes |-> NoClone]]
    /\ filterCalls = [c \in Convs |-> {}]
    /\ task = [c \in Convs |-> [o \in Owners |-> NoTask]]
    /\ embed = [c \in Convs |-> [n \in Nodes |-> "none"]]
    /\ result = [c \in Convs |-> Pending]

\* inliner.inlineAll(string, baseUrl)
inlineAllCall(c, string, baseUrl) ==
    /\ task[c][top].st = "none"
    /\ task' = [task EXCEPT ![c][top] = inlineAll(string, baseUrl)]
    /\ UNCHANGED <<doc, implOptions, uidIndex, fetchLog, pc, entry, opts, phase,
                   clone, filterCalls, embed, result>>

NextInline ==
    \/ \E string \in Texts, baseUrl \in BaseUrls : inlineAllCall("A", string, baseUrl)
    \/ inline("A", top)
    \/ \E status \in Statuses, body \in Bodies : requestDone("A", top, status, body)
    \/ \E doneFirst \in BOOLEAN : requestTimeout("A", top, doneFirst)

SpecInline == InitInline /\ [][NextInline]_vars

-----------------------------------------------------------------------------
(* Two calls on one page: the second starts while the first is in flight   *)
(* or after it has ended                                                   *)

SharedOptions ==
    {noOptions,
     [noOptions EXCEPT !.imagePlaceholder = placeholderPng],
     [noOptions EXCEPT !.cacheBust = "false", !.useCredentials = "true"],
     [noOptions EXCEPT !.imagePlaceholder = placeholderPng, !.cacheBust = "true",
                       !.useCredentials = "true"]}

InitConcurrent ==
    /\ doc = DocImage
    /\ implOptions = emptyOptions
    /\ uidIndex = 0
    /\ fetchLog = <<>>
    /\ pc = [c \in Convs |-> "idle"]
    /\ entry = [c \in Convs |-> "none"]
    /\ opts = [c \in Convs |-> noOptions]
    /\ phase = [c \in Convs |-> [n \in Nodes |-> "none"]]
    /\ clone = [c \in Convs |-> [n \in Nodes |-> NoClone]]
    /\ filterCalls = [c \in Convs |-> {}]
    /\ task = [c \in Convs |-> [o \in Owners |-> NoTask]]
    /\ embed = [c \in Convs |-> [n \in Nodes |-> "none"]]
    /\ result = [c \in Convs |-> Pending]

\* The first call of the page, and a second one made at any later moment.
CallFirst ==
    \E options \in SharedOptions :
        /\ \A c \in Convs : pc[c] = "idle"
        /\ toSvg("A", "toSvg", options)

CallSecond ==
    \E options \in SharedOptions :
        /\ pc["A"] # "idle"
        /\ toSvg("B", "toSvg", options)

NextConcurrent ==
    \/ CallFirst
    \/ CallSecond
    \/ \E c \in Convs, n \in Nodes : cloneNode(c, n)
    \/ \E c \in Convs, n \in Nodes : processClone(c, n)
    \/ \E c \in Convs, n \in Nodes : appendChild(c, n)
    \/ \E c \in Convs : embedFonts(c)
    \/ \E c \in Convs, o \in Owners, status \in Statuses, body \in Bodies :
          requestDone(c, o, status, body)
    \/ \E c \in Convs, o \in Owners, doneFirst \in BOOLEAN :
          requestTimeout(c, o, doneFirst)
    \/ \E c \in Convs : fontsResolved(c)
    \/ \E c \in Convs, n \in Nodes : inlineAllBody(c, n)
    \/ \E c \in Convs, n \in Nodes : imageLoad(c, n)
    \/ \E c \in Convs, n \in Nodes : imageError(c, n)
    \/ \E c \in Convs, n \in Nodes : childrenInlined(c, n)
    \/ \E c \in Convs : inlineImages(c)
    \/ \E c \in Convs : applyOptions(c)
    \/ \E c \in Convs : makeSvgDataUri(c)

SpecConcurrent == InitConcurrent /\ [][NextConcurrent]_vars

-----------------------------------------------------------------------------
(* One toSvg of a document whose fonts and images are fetched side by     *)
(* side.                                                                   *)

InitEmbed ==
    /\ doc = DocGallery
    /\ implOptions = emptyOptions
    /\ uidIndex = 0
    /\ fetchLog = <<>>
    /\ pc = [c \in Convs |-> "idle"]
    /\ entry = [c \in Convs |-> "none"]
    /\ opts = [c \in Convs |-> noOptions]
    /\ phase = [c \in Convs |-> [n \in Nodes |-> "none"]]
    /\ clone = [c \in Convs |-> [n \in Nodes |-> NoClone]]
    /\ filterCalls = [c \in Convs |-> {}]
    /\ task = [c \in Convs |-> [o \in Owners |-> NoTask]]
    /\ embed = [c \in Convs |-> [n \in Nodes |-> "none"]]
    /\ result = [c \in Convs |-> Pending]

CallEmbed ==
    \E options \in {noOptions, [noOptions EXCEPT !.imagePlaceholder = placeholderPng]} :
        /\ \A c \in Convs : pc[c] = "idle"
        /\ toSvg("A", "toSvg", options)

NextEmbed ==
    \/ CallEmbed
    \/ \E c \in Convs, n \in Nodes : cloneNode(c, n)
    \/ \E c \in Convs, n \in Nodes : processClone(c, n)
    \/ \E c \in Convs, n \in Nodes : appendChild(c, n)
    \/ \E c \in Convs : embedFonts(c)
    \/ \E c \in Convs, o \in Owners : inline(c, o)
    \/ \E c \in Convs, o \in Owners, status \in Statuses, body \in Bodies :
          requestDone(c, o, status, body)
    \/ \E c \in Convs, o \in Owners, doneFirst \in BOOLEAN :
          requestTimeout(c, o, doneFirst)
    \/ \E c \in Convs : fontsResolved(c)
    \/ \E c \in Convs, n \in Nodes : inlineAllBody(c, n)
    \/ \E c \in Convs, n \in Nodes : imageLoad(c, n)
    \/ \E c \in Convs, n \in Nodes : imageError(c, n)
    \/ \E c \in Convs, n \in Nodes : childrenInlined(c, n)
    \/ \E c \in Convs : inlineImages(c)
    \/ \E c \in Convs : applyOptions(c)
    \/ \E c \in Convs : makeSvgDataUri(c)

SpecEmbed == InitEmbed /\ [][NextEmbed]_vars

-----------------------------------------------------------------------------
(* Two conversions of a document with pseudo-elements, called in any      *)
(* order and at any moment.                                                *)

InitUid ==
    /\ doc = DocPseudo
    /\ implOptions = emptyOptions
    /\ uidIndex = 0
    /\ fetchLog = <<>>
    /\ pc = [c \in Convs |-> "idle"]
    /\ entry = [c \in Convs |-> "none"]
    /\ opts = [c \in Convs |-> noOptions]
    /\ phase = [c \in Convs |-> [n \in Nodes |-> "none"]]
    /\ clone = [c \in Convs |-> [n \in Nodes |-> NoClone]]
    /\ filterCalls = [c \in Convs |-> {}]
    /\ task = [c \in Convs |-> [o \in Owners |-> NoTask]]
    /\ embed = [c \in Convs |-> [n \in Nodes |-> "none"]]
    /\ result = [c \in Convs |-> Pending]

CallAny == \E c \in Convs, options \in {noOptions} : toSvg(c, "toSvg", options)

NextUid ==
    \/ CallAny
    \/ \E c \in Convs, n \in Nodes : cloneNode(c, n)
    \/ \E c \in Convs, n \in Nodes : processClone(c, n)
    \/ \E c \in Convs, n \in Nodes : appendChild(c, n)
    \/ \E c \in Convs : embedFonts(c)
    \/ \E c \in Convs : fontsResolved(c)
    \/ \E c \in Convs, n \in Nodes : inlineAllBody(c, n)
    \/ \E c \in Convs, n \in Nodes : childrenInlined(c, n)
    \/ \E c \in Convs : inlineImages(c)
    \/ \E c \in Convs : applyOptions(c)
    \/ \E c \in Convs : makeSvgDataUri(c)

SpecUid == InitUid /\ [][NextUid]_vars

-----------------------------------------------------------------------------
(* One toSvg of a form, whatever the user has typed into it.               *)

Values == {<<>>, <<"hi">>, <<"a", "&amp;", "b">>}

InitForm ==
    /\ doc \in {DocForm(text, line) : text \in Values, line \in Values}
    /\ implOptions = emptyOptions
    /\ uidIndex = 0
    /\ fetchLog = <<>>
    /\ pc = [c \in Convs |-> "idle"]
    /\ entry = [c \in Convs |-> "none"]
    /\ opts = [c \in Convs |-> noOptions]
    /\ phase = [c \in Convs |-> [n \in Nodes |-> "none"]]
    /\ clone = [c \in Convs |-> [n \in Nodes |-> NoClone]]
    /\ filterCalls = [c \in Convs |-> {}]
    /\ task = [c \in Convs |-> [o \in Owners |-> NoTask]]
    /\ embed = [c \in Convs |-> [n \in Nodes |-> "none"]]
    /\ result = [c \in Convs |-> Pending]

CallForm ==
    \E options \in {noOptions, [noOptions EXCEPT !.filter = Filter({"n2", "n3"})]} :
        /\ \A c \in Convs : pc[c] = "idle"
        /\ toSvg("A", "toSvg", options)

NextForm ==
    \/ CallForm
    \/ \E c \in Convs, n \in Nodes : cloneNode(c, n)
    \/ \E c \in Convs, n \in Nodes : processClone(c, n)
    \/ \E c \in Convs, n \in Nodes : appendChild(c, n)
    \/ \E c \in Convs : embedFonts(c)
    \/ \E c \in Convs : fontsResolved(c)
    \/ \E c \in Convs, n \in Nodes : inlineAllBody(c, n)
    \/ \E c \in Convs, n \in Nodes : childrenInlined(c, n)
    \/ \E c \in Convs : inlineImages(c)
    \/ \E c \in Convs : applyOptions(c)
    \/ \E c \in Convs : makeSvgDataUri(c)

SpecForm == InitForm /\ [][NextForm]_vars

-----------------------------------------------------------------------------
(* Properties                                                              *)

\* The filter accepts n (every node, when there is no filter).
accepts(c, n) == ~opts[c].filter.present \/ n \in opts[c].filter.accepts

\* The clones of source nodes among the children of n's clone, in order.
nodeChildren(c, n) ==
    LET kids == SelectSeq(clone[c][n].children, LAMBDA k : k.t = "node")
    IN  [i \in 1..Len(kids) |-> kids[i].n]

\* The source nodes whose clones make up the clone tree under n's clone.
RECURSIVE treeNodes(_, _)
treeNodes(c, n) ==
    LET kids == nodeChildren(c, n)
        RECURSIVE under(_)
        under(i) == IF i > Len(kids) THEN {} ELSE treeNodes(c, kids[i]) \cup under(i + 1)
    IN  {n} \cup under(1)

\* cloneNode(node, filter, true) has resolved with a clone tree.
treeProduced(c) == phase[c][Root] = "resolved"

emptyCanvas(n) == srcNode(n).kind = "canvas" /\ srcNode(n).dataUrl = noPixels

\* A style node never precedes the clone of a source node.
nodesFirst(children) ==
    \A i \in 1..Len(children) : \A j \in 1..Len(children) :
        (i < j /\ children[j].t = "node") => children[i].t = "node"

C2_FilteredSubtreeAbsent ==
    \A c \in Convs :
        /\ Root \notin filterCalls[c]
        /\ \A n \in filterCalls[c] :
              ~accepts(c, n) =>
                  /\ phase[c][n] = "absent"
                  /\ \A d \in subtree(n) :
                        /\ ~clone[c][d].exists
                        /\ \A p \in Nodes : ChildNode(d) \notin Range(clone[c][p].children)
                        /\ d # n => (phase[c][d] = "none" /\ d \notin filterCalls[c])

C2_Witness ==
    /\ doc = DocTree
    /\ pc["A"] = "serialized"
    /\ "n2" \in filterCalls["A"]
    /\ ~accepts("A", "n2")
    /\ accepts("A", "n5")
    /\ ~accepts("A", Root)

\* C3: no step of cloning a child, or anything below it, happens before
\* every earlier sibling has resolved and been appended.
C3_SiblingsSequential ==
    \A c \in Convs : \A p \in Nodes :
        \A i \in 1..Len(childNodes(p)) : \A j \in 1..Len(childNodes(p)) :
            i < j =>
                \A d \in subtree(childNodes(p)[j]) :
                    phase[c][d] # "none" => settled(c, childNodes(p)[i])

C3_Witness ==
    /\ doc = DocCanvas
    /\ phase["A"]["n2"] = "appended"
    /\ clone["A"]["n2"].kind = "img"
    /\ phase["A"]["n3"] # "none"

\* C4 as stated: a fetch that ends with a non-success status or a timeout,
\* with no placeholder, makes getAndEncode's promise reject.
C4_FailedFetchRejects ==
    \A c \in Convs : \A o \in Owners :
        (task[c][o].event \in {"status", "timeout"}
         /\ task[c][o].request.placeholder = Undefined)
            => task[c][o].outcome.state = "rejected"

\* The fetch of node n's image ended with a non-success status or a
\* timeout.
imageFetchFailed(c, n) == task[c][<<"img", n>>].event \in {"status", "timeout"}

\* C5 as stated: with no placeholder, a conversion one of whose image
\* fetches failed never ends fulfilled.
C5_FailedFetchFailsConversion ==
    \A c \in Convs : \A n \in Nodes :
        (imageFetchFailed(c, n) /\ task[c][<<"img", n>>].request.placeholder = Undefined)
            => result[c].state # "fulfilled"

\* The payload of a data URI: what follows its first comma.
payloadOf(uri) ==
    LET k == CHOOSE i \in 1..Len(uri) : uri[i] = "," /\ \A j \in 1..(i - 1) : uri[j] # ","
    IN  SubSeq(uri, k + 1, Len(uri))

isPlaceholderUri(p) == p # Undefined /\ isDataUrl(p) /\ "," \in Range(p)

\* C6: with a placeholder data URI configured, a fetch that ends with a
\* non-success status or a timeout has getAndEncode resolve with the
\* placeholder's payload; the conversion is not failed (only the decoding
\* of the finished svg can still reject a raster call), and the serialized
\* output has, as the source of an image whose fetch failed, the data URI
\* of that payload.
C6_PlaceholderReplacesFailedFetch ==
    \A c \in Convs :
        isPlaceholderUri(opts[c].imagePlaceholder) =>
            /\ \A o \in Owners :
                  task[c][o].event \in {"status", "timeout"} =>
                      task[c][o].outcome =
                          [state |-> "fulfilled",
                           value |-> payloadOf(opts[c].imagePlaceholder)]
            /\ \A n \in Nodes :
                  imageFetchFailed(c, n) =>
                      /\ entry[c] = "toSvg" => pc[c] # "rejected"
                      /\ pc[c] = "rejected" => result[c].error = <<"error", "event">>
                      /\ pc[c] = "serialized" =>
                            \E i \in 1..Len(result[c].value) :
                                /\ result[c].value[i].n = n
                                /\ result[c].value[i].tag = "img"
                                /\ result[c].value[i].src =
                                       <<"data:">> \o mimeType(srcNode(n).src)
                                       \o <<";base64", ",">>
                                       \o payloadOf(opts[c].imagePlaceholder)

C6_Witness ==
    /\ doc = DocStyled
    /\ opts["A"].imagePlaceholder = placeholderPng
    /\ task["A"][<<"img", "n2">>].event = "timeout"
    /\ task["A"][<<"bg", "n1">>].event = "status"
    /\ pc["A"] = "serialized"
    /\ result["A"].state = "fulfilled"

\* C7: a request that times out settles getAndEncode's promise as a
\* non-success status does, for every url and placeholder.
C7_TimeoutLikeStatus ==
    \A c \in Convs : \A o \in Owners :
        task[c][o].event = "timeout" =>
            \A status \in Statuses \ {OK} :
                task[c][o].outcome = done(task[c][o].request, status, <<>>)

C7_Witness ==
    /\ doc = DocImage
    /\ task["A"][<<"img", "n2">>].event = "timeout"
    /\ task["A"][<<"img", "n2">>].request.placeholder # Undefined
    /\ task["A"][<<"img", "n2">>].outcome.value = <<"P">>


\* The stage of the conversion a call is in.
stage(c) ==
    CASE pc[c] = "idle" -> "Idle"
      [] pc[c] = "cloneNode" -> "Cloning"
      [] pc[c] = "embedFonts" -> "FontResolving"
      [] pc[c] \in {"inlineImages", "applyOptions"} -> "ImageInlining"
      [] pc[c] = "makeSvgDataUri" -> "OptionsApplied"
      [] pc[c] = "serialized" -> "Serialized"
      [] pc[c] \in {"makeImage", "delay", "delayed"} -> "RasterizeRequested"
      [] pc[c] = "drawn" -> "Rasterized"
      [] pc[c] = "rejected" -> "Failed"

StageOrder ==
    {<<"Idle", "Cloning">>, <<"Cloning", "FontResolving">>,
     <<"FontResolving", "ImageInlining">>, <<"ImageInlining", "OptionsApplied">>,
     <<"OptionsApplied", "Serialized">>, <<"Serialized", "RasterizeRequested">>,
     <<"RasterizeRequested", "Rasterized">>}

\* The work of the stages before the one the call is in is complete.
cloningComplete(c) ==
    /\ phase[c][Root] \in {"resolved", "absent"}
    /\ \A n \in Nodes \ {Root} : phase[c][n] \in {"none", "absent", "appended"}

fontsComplete(c) == \A o \in FontOwners : task[c][o].st = "done"

imagesComplete(c) ==
    /\ embed[c][Root] = "done"
    /\ \A n \in Nodes : embed[c][n] \in {"none", "done"}
    /\ \A o \in Owners \ {svgImage} : task[c][o].st \in {"none", "done"}

stagesBeforeComplete(c) ==
    /\ stage(c) \notin {"Idle", "Cloning", "Failed"} => cloningComplete(c)
    /\ stage(c) \notin {"Idle", "Cloning", "FontResolving", "Failed"} => fontsComplete(c)
    /\ stage(c) \in {"OptionsApplied", "Serialized", "RasterizeRequested", "Rasterized"}
          => imagesComplete(c)
    /\ stage(c) \in {"RasterizeRequested", "Rasterized"}
          => result[c].value = serializeToString(c, Root)

\* C8: a call moves through Cloning, FontResolving, ImageInlining,
\* OptionsApplied, Serialized and, for draw only, RasterizeRequested and
\* Rasterized, in this order and one at a time (or fails); a stage is
\* entered only with the work of the earlier ones complete; toSvg ends in
\* Serialized, where its promise is fulfilled, and draw's promise is
\* fulfilled only in Rasterized.
C8_StagesInOrder ==
    /\ [][\A c \in Convs :
            stage(c)' # stage(c) =>
                \/ <<stage(c), stage(c)'>> \in StageOrder
                \/ stage(c)' = "Failed"]_vars
    /\ [](\A c \in Convs :
            /\ stagesBeforeComplete(c)
            /\ entry[c] = "toSvg" =>
                  /\ stage(c) \notin {"RasterizeRequested", "Rasterized"}
                  /\ result[c].state = "fulfilled" <=> stage(c) = "Serialized"
            /\ entry[c] = "draw" =>
                  (result[c].state = "fulfilled" <=> stage(c) = "Rasterized"))

C8_Witness ==
    /\ doc = DocStyled
    /\ pc["A"] = "drawn"
    /\ result["A"].state = "fulfilled"
    /\ Len(fetchLog) = 2

\* C9: once a stage has failed the call is in Failed for good: nothing of
\* the call changes any more, no request is sent, the caller gets the
\* error and no clone or output, and a call's promise is rejected only in
\* Failed.
C9_FailureIsTerminal ==
    /\ [][\A c \in Convs :
            pc[c] = "rejected" =>
                /\ pc'[c] = "rejected"
                /\ result'[c] = result[c]
                /\ phase'[c] = phase[c]
                /\ clone'[c] = clone[c]
                /\ task'[c] = task[c]
                /\ embed'[c] = embed[c]
                /\ \A i \in 1..Len(fetchLog') : i > Len(fetchLog) => fetchLog'[i].c # c]_vars
    /\ [](\A c \in Convs :
            /\ result[c].state = "rejected" <=> pc[c] = "rejected"
            /\ result[c].state = "rejected" =>
                  (result[c].value = <<>> /\ result[c].error # <<>>))

C9_Witness ==
    /\ doc = DocCanvas
    /\ pc["A"] = "rejected"
    /\ result["A"].error = <<"TypeError">>
    /\ phase["A"]["n4"] = "resolved"

\* The urls URL_REGEX finds in a text are all data URIs (or there is none).
nothingExternal(string) ==
    \A i \in 1..Len(execAll(string, 1)) : isDataUrl(execAll(string, 1)[i])

\* C10: inlineAll on a text without url(...), or whose url(...) are all
\* data URIs, resolves with the text unchanged and sends no request.
C10_NothingToInlineIsIdentity ==
    \A c \in Convs :
        (task[c][top].st # "none" /\ nothingExternal(task[c][top].orig)) =>
            /\ task[c][top].st = "done"
            /\ task[c][top].string = task[c][top].orig
            /\ fetchLog = <<>>

C10_Witness ==
    /\ task["A"][top].st = "done"
    /\ task["A"][top].orig = urlOf(<<"data:", "a">>) \o <<"a">> \o urlOf(<<"data:", "a">>)

\* The payloads getAndEncode can resolve with here: the body, the payload
\* of the placeholder, or the '' of a failed fetch.
Payloads == {<<"B">>, <<"P">>, <<>>}

\* inlineAll has resolved a text that held an external reference.
inlinedSome(c) ==
    task[c][top].st = "done" /\ readUrls(task[c][top].orig) # <<>>

\* C11 as stated: when inlineAll has resolved, the text has as many references as it
\* had, each data URI it had is as it was and each external reference has
\* become data:<mime>;base64,<payload>; a new scan finds no external
\* reference, and inlineAll on the result gives the result back.
C11_InlinedTextHasNoExternal ==
    \A c \in Convs :
        task[c][top].st = "done" =>
            LET was == execAll(task[c][top].orig, 1)
                found == execAll(task[c][top].string, 1)
                again == inlineAll(task[c][top].string, task[c][top].baseUrl)
            IN  /\ Len(found) = Len(was)
                /\ \A i \in 1..Len(found) :
                      IF isDataUrl(was[i]) THEN found[i] = was[i]
                      ELSE \E payload \in Payloads :
                              found[i] = <<"data:">> \o mimeType(was[i])
                                         \o <<";base64", ",">> \o payload
                /\ readUrls(task[c][top].string) = <<>>
                /\ again.st = "done"
                /\ again.string = task[c][top].string

PseudoElements == {":before", ":after"}

\* The computed `content` of a pseudo-element of source node n.
contentOf(n, element) ==
    IF element = ":before" THEN srcNode(n).before ELSE srcNode(n).after

hasContent(n, element) == contentOf(n, element) \notin {<<>>, <<"none">>}

\* The style nodes synthesized for a pseudo-element, among the children of
\* n's clone, as positions; the class name a rule's selector carries.
pseudoStyles(c, n, element) ==
    {i \in 1..Len(clone[c][n].children) :
        /\ clone[c][n].children[i].t = "pseudo"
        /\ clone[c][n].children[i].text[6] = element}

selectorClass(text) == SubSeq(text, 2, 4)

\* processClone has run on the clone of n, an Element.
postProcessed(c, n) ==
    /\ phase[c][n] \in {"resolved", "appended"}
    /\ clone[c][n].exists
    /\ isElement(clone[c][n].kind)

\* The class attribute the clone was made with.
copiedClass(c, n) == IF srcNode(n).kind = "canvas" THEN <<>> ELSE srcNode(n).class

\* C12: for :before and for :after, a computed `content` that is empty or
\* `none` puts no style node for that pseudo-element in the clone; the
\* class attribute keeps what it was copied with, extended at most by the
\* class names of the style nodes there are, and is exactly as copied
\* when neither pseudo-element has content.
C12_NoContentNoPseudoStyle ==
    \A c \in Convs : \A n \in Nodes :
        postProcessed(c, n) =>
            /\ \A element \in PseudoElements :
                  ~hasContent(n, element) => pseudoStyles(c, n, element) = {}
            /\ SubSeq(clone[c][n].class, 1, Len(copiedClass(c, n))) = copiedClass(c, n)
            /\ \A i \in (Len(copiedClass(c, n)) + 1)..Len(clone[c][n].class) :
                  \/ clone[c][n].class[i] = " "
                  \/ \E element \in PseudoElements :
                        \E k \in pseudoStyles(c, n, element) :
                            clone[c][n].class[i] \in
                                Range(selectorClass(clone[c][n].children[k].text))
            /\ (\A element \in PseudoElements : ~hasContent(n, element))
                  => clone[c][n].class = copiedClass(c, n)

C12_Witness ==
    /\ doc = DocTree
    /\ pc["A"] = "serialized"
    /\ postProcessed("A", "n3")
    /\ pseudoStyles("A", "n3", ":before") = {}
    /\ pseudoStyles("A", "n3", ":after") # {}
    /\ clone["A"][Root].class = <<"r">>
    /\ \A i \in 1..Len(clone["A"][Root].children) :
          clone["A"][Root].children[i].t # "pseudo"

\* The class names in a class attribute that are the selector class of
\* style node k of n's clone, as positions.
classAdded(c, n, k) ==
    {i \in 1..Len(clone[c][n].class) :
        /\ i + 2 <= Len(clone[c][n].class)
        /\ SubSeq(clone[c][n].class, i, i + 2) =
               selectorClass(clone[c][n].children[k].text)}

\* C13 as stated: a pseudo-element with content gives the clone exactly
\* one style node, whose rule has the selector .<uid>:<element> and the
\* content, and exactly one more class, that uid, which the source node
\* does not have -- whether or not the node has a class attribute.
C13_PseudoStyleAndClass ==
    \A c \in Convs : \A n \in Nodes :
        postProcessed(c, n) =>
            \A element \in PseudoElements :
                hasContent(n, element) =>
                    /\ Cardinality(pseudoStyles(c, n, element)) = 1
                    /\ \A k \in pseudoStyles(c, n, element) :
                          LET text == clone[c][n].children[k].text
                          IN  /\ text = formatPseudoElementStyle(
                                            selectorClass(text), element,
                                            contentOf(n, element))
                              /\ Cardinality(classAdded(c, n, k)) = 1
                              /\ \A j \in 1..3 :
                                    selectorClass(text)[j] \notin Range(srcNode(n).class)

\* makeSvgDataUri has been given the size of the container.
sized(c) == result[c].size # <<>>

\* The scroll box of the root: the scroll size plus the border widths.
scrollBoxWidth == doc.box.scrollWidth + doc.box.border.left + doc.box.border.right
scrollBoxHeight == doc.box.scrollHeight + doc.box.border.top + doc.box.border.bottom

\* C14: without a width option the container is scrollWidth + left border
\* + right border wide, without a height option scrollHeight + top border
\* + bottom border high; for scroll 200 by 100 with borders of 1px left
\* and right and 2px top and bottom it is 202 by 104.
C14_ContainerIsScrollBox ==
    \A c \in Convs :
        sized(c) =>
            /\ opts[c].width = <<>> => result[c].size[1] = scrollBoxWidth
            /\ opts[c].height = <<>> => result[c].size[2] = scrollBoxHeight
            /\ (doc.box = Box(200, 100, 1, 1, 2, 2)
                  /\ opts[c].width = <<>> /\ opts[c].height = <<>>)
                  => result[c].size = <<202, 104>>

C14_Witness ==
    /\ doc = DocTree
    /\ pc["A"] = "serialized"
    /\ opts["A"].width = <<>>
    /\ opts["A"].height = <<>>
    /\ opts["A"].bgcolor = <<"red">>
    /\ result["A"].size = <<202, 104>>

larger(a, b) == IF a > b THEN a ELSE b

\* C15 as stated: with an explicit width or height, that dimension of the
\* container is the larger of the explicit one and the scroll box's.
C15_AsStated ==
    \A c \in Convs :
        sized(c) =>
            /\ opts[c].width # <<>> =>
                  result[c].size[1] = larger(opts[c].width[1], scrollBoxWidth)
            /\ opts[c].height # <<>> =>
                  result[c].size[2] = larger(opts[c].height[1], scrollBoxHeight)

\* C15 (amended): an explicit width or height other than 0 is that
\* dimension of the container, whether the scroll box is smaller or
\* larger; an explicit 0 leaves the scroll box's dimension.
C15_ExplicitSizeWins ==
    \A c \in Convs :
        sized(c) =>
            /\ opts[c].width # <<>> =>
                  result[c].size[1] = IF opts[c].width[1] # 0 THEN opts[c].width[1]
                                      ELSE scrollBoxWidth
            /\ opts[c].height # <<>> =>
                  result[c].size[2] = IF opts[c].height[1] # 0 THEN opts[c].height[1]
                                      ELSE scrollBoxHeight

C15_Witness ==
    /\ doc = DocTree
    /\ pc["A"] = "serialized"
    /\ opts["A"].width = <<100>>
    /\ opts["A"].height = <<300>>
    /\ result["A"].size = <<100, 300>>
    /\ scrollBoxWidth = 202

\* The call c has just been made: toSvg(node, options) has run up to the
\* start of its chain.
called(c) == pc[c] = "idle" /\ pc'[c] # "idle"

\* C16: the step of a call leaves, in each of imagePlaceholder, cacheBust
\* and useCredentials of the shared options, the call's own option when it
\* gives one and else the default -- undefined, false, false -- whatever
\* the shared options held before.
C16_OptionsOverwritten ==
    [][\A c \in Convs :
          called(c) =>
              /\ implOptions'.imagePlaceholder = opts'[c].imagePlaceholder
              /\ implOptions'.cacheBust =
                     IF opts'[c].cacheBust = "undefined" THEN "false"
                     ELSE opts'[c].cacheBust
              /\ implOptions'.useCredentials =
                     IF opts'[c].useCredentials = "undefined" THEN "false"
                     ELSE opts'[c].useCredentials]_vars

C16_Witness ==
    /\ opts["A"].imagePlaceholder = placeholderPng
    /\ opts["A"].cacheBust = "true"
    /\ opts["A"].useCredentials = "true"
    /\ pc["B"] = "cloneNode"
    /\ opts["B"] = noOptions
    /\ implOptions = [imagePlaceholder |-> Undefined, cacheBust |-> "false",
                      useCredentials |-> "false"]

\* C17: a request the first call sends once the second call has been made
\* is sent under the second call's options: with credentials exactly when
\* the second call asks for them, with the time appended to the url
\* exactly when the second call asks for cacheBust, and with the payload of
\* the second call's placeholder as its placeholder.
C17_LastCallWins ==
    [][\A i \in 1..Len(fetchLog') :
          (i > Len(fetchLog) /\ fetchLog'[i].c = "A" /\ pc["B"] # "idle") =>
              /\ fetchLog'[i].request.withCredentials
                     = (opts["B"].useCredentials = "true")
              /\ ("now" \in Range(fetchLog'[i].request.url))
                     = (opts["B"].cacheBust = "true")
              /\ fetchLog'[i].request.placeholder =
                     IF opts["B"].imagePlaceholder = placeholderPng
                     THEN <<"P">> ELSE Undefined]_vars

C17_Witness ==
    /\ opts["A"] = noOptions
    /\ opts["B"].useCredentials = "true"
    /\ opts["B"].cacheBust = "true"
    /\ pc["B"] = "cloneNode"
    /\ \E i \in 1..Len(fetchLog) :
          /\ fetchLog[i].c = "A"
          /\ fetchLog[i].request.withCredentials
          /\ fetchLog[i].request.placeholder = <<"P">>
          /\ "now" \in Range(fetchLog[i].request.url)

\* C18: no step of a conversion, whether it ends fulfilled or rejected,
\* changes the document: the children, attributes, class and style of
\* every source node stay as they are, and what is written is written to
\* the clones.
C18_SourceNeverMutated == [][doc' = doc]_vars

C18_Witness ==
    /\ doc = DocStyled
    /\ pc["A"] = "serialized"
    /\ opts["A"].bgcolor = <<"red">>
    /\ clone["A"][Root].style.backgroundColor = <<"red">>
    /\ clone["A"][Root].background # srcNode(Root).background
    /\ clone["A"]["n2"].src # srcNode("n2").src
    /\ Len(clone["A"][Root].children) = 3

\* The host failed to decode the rewritten source of n's image.
imageDecodeFailed(c, n) == task[c][<<"img", n>>].decoded = "error"

\* The host failed to decode the finished svg.
svgDecodeFailed(c) == task[c][svgImage].decoded = "error"

\* C19: an image whose rewritten source fails to decode has its inlining
\* resolved -- images.inlineAll on it is done -- and the call is not failed
\* by it: a toSvg call is never rejected after it, a draw call only by the
\* decoding of the finished svg.
C19_ImageDecodeErrorTolerated ==
    \A c \in Convs : \A n \in Nodes :
        imageDecodeFailed(c, n) =>
            /\ task[c][<<"img", n>>].st = "done"
            /\ embed[c][n] = "done"
            /\ pc[c] = "rejected" => (entry[c] = "draw" /\ svgDecodeFailed(c))

C19_Witness ==
    /\ doc = DocImage
    /\ imageDecodeFailed("A", "n2")
    /\ task["A"][<<"img", "n2">>].event = "success"
    /\ entry["A"] = "toSvg"
    /\ pc["A"] = "serialized"
    /\ result["A"].state = "fulfilled"

\* C20: when the finished svg fails to decode in a draw call, the call is
\* rejected: it has no output and never draws, with or without an
\* imagePlaceholder.
C20_SvgDecodeErrorFails ==
    \A c \in Convs :
        svgDecodeFailed(c) =>
            /\ entry[c] = "draw"
            /\ pc[c] = "rejected"
            /\ result[c] = [state |-> "rejected", value |-> <<>>,
                            error |-> <<"error", "event">>, size |-> <<>>,
                            canvas |-> <<>>]

C20_Witness ==
    /\ doc = DocImage
    /\ svgDecodeFailed("A")
    /\ opts["A"].imagePlaceholder = placeholderPng
    /\ implOptions.imagePlaceholder = placeholderPng
    /\ task["A"][<<"img", "n2">>].decoded = "load"
    /\ pc["A"] = "rejected"

\* fontFaces.resolveAll has been called in call c: the rules are selected
\* and each has its inlineAll.
fontsRead(c) == pc[c] \notin {"idle", "cloneNode", "rejected"}

\* The css texts of the rules whose resolve() was called, in order.
resolvedRules(c) == [i \in 1..Len(webFonts) |-> task[c][fontOwner(i)].orig]

cssTexts(rules) == [i \in 1..Len(rules) |-> rules[i].rule.cssText]

\* The rules of every style sheet that lets its rules be read.
RECURSIVE accessibleRules(_)
accessibleRules(styleSheets) ==
    IF styleSheets = <<>> THEN <<>>
    ELSE LET sheet == Head(styleSheets)
             rules == IF ~sheet.throws
                      THEN [i \in 1..Len(sheet.cssRules) |->
                               [rule |-> sheet.cssRules[i], href |-> sheet.href]]
                      ELSE <<>>
         IN  rules \o accessibleRules(Tail(styleSheets))

\* C21 as stated: a style sheet whose rules cannot be read is left out, the
\* rules of every other style sheet are collected -- the rules resolved are
\* those selected among them -- and the call goes on.
C21_ThrowingSheetSkipped ==
    \A c \in Convs :
        fontsRead(c) =>
            /\ Len(webFonts) = Len(selectWebFontRules(accessibleRules(doc.styleSheets)))
            /\ resolvedRules(c) =
                   cssTexts(selectWebFontRules(accessibleRules(doc.styleSheets)))

\* C27 as stated: of the rules read, those selected are the font-face
\* rules whose src has at least one reference that is no data URI.
C27_AsStated ==
    \A c \in Convs :
        fontsRead(c) =>
            resolvedRules(c) =
                cssTexts(SelectSeq(getCssRules(doc.styleSheets),
                                   LAMBDA r : /\ r.rule.type = "font-face"
                                              /\ readUrls(r.rule.src) # <<>>))

\* C27 (amended): of the rules read, those selected are the font-face
\* rules whose src has at least one url(...) reference, a data URI or not;
\* a font-face rule without url(...) and a rule of another type are not.
C27_FontFaceRulesWithUrl ==
    \A c \in Convs :
        fontsRead(c) =>
            resolvedRules(c) =
                cssTexts(SelectSeq(getCssRules(doc.styleSheets),
                                   LAMBDA r : /\ r.rule.type = "font-face"
                                              /\ execAll(r.rule.src, 1) # <<>>))

C27_Witness ==
    /\ doc = DocFonts
    /\ pc["A"] = "inlineImages"
    /\ Len(getCssRules(doc.styleSheets)) = 4
    /\ resolvedRules("A") =
           <<Rule("font-face", urlOf(cWoff)).cssText,
             Rule("font-face", urlOf(pixels)).cssText>>

\* A CSS value holds a url(...) whose address, after the optional quote,
\* does not start as a data URI.
externalUrlIn(value) ==
    \E i \in 1..Len(value) :
        /\ value[i] = "url("
        /\ LET j == IF i < Len(value) /\ value[i + 1] \in Quotes THEN i + 2 ELSE i + 1
           IN  j <= Len(value) /\ value[j] # "data:"

noExternalDependency(c) ==
    \A n \in treeNodes(c, Root) :
        /\ clone[c][n].kind = "img" => isDataUrl(clone[c][n].src)
        /\ ~externalUrlIn(clone[c][n].background)

\* C22 as stated: in Serialized every image of the clone tree has a data
\* URI as its source and no background of the clone tree holds a url(...)
\* that is not a data URI.
C22_SerializedHasNoExternal ==
    \A c \in Convs : stage(c) = "Serialized" => noExternalDependency(c)

\* (The same on the documents whose backgrounds have no reference with a
\* quote or another reference in it.)
C22_OnPlainReferences ==
    \A c \in Convs :
        (stage(c) = "Serialized" /\ doc # DocNested) => noExternalDependency(c)

\* The children of n whose clones are attached to n's clone, in order.
attachedChildren(c, n) ==
    SelectSeq(childNodes(n), LAMBDA k : phase[c][k] = "appended")

fetchesOf(c, o) == SelectSeq(fetchLog, LAMBDA e : e.c = c /\ e.o = o)

\* C24: of the requests an inlineAll has sent, all but the last have been
\* answered and their references taken off, and the last one is either in
\* flight or answered too; the requests are for the references in the order
\* readUrls found them; and when none is in flight the reference of the
\* last request has been answered and is found in the text no more.  So a
\* request is sent only when the one before it has been answered and its
\* replacement made, and at most one is in flight.
C24_OneFetchAtATime ==
    \A c \in Convs :
        LET t == task[c][top]
            found == readUrls(t.orig)
            sent == fetchesOf(c, top)
            k == Len(sent)
            addressOf(url) == IF t.baseUrl # Undefined /\ t.baseUrl # <<>>
                              THEN resolveUrl(url, t.baseUrl) ELSE url
        IN  /\ k <= Len(found)
            /\ \A i \in 1..k :
                  sent[i].request.url = requestUrl(addressOf(found[i]), implOptions)
            /\ t.st = "fetching" => Len(t.urls) = Len(found) - k + 1
            /\ t.st \in {"ready", "done"} =>
                  /\ Len(t.urls) = Len(found) - k
                  /\ k > 0 => /\ t.outcome.state = "fulfilled"
                              /\ found[k] \notin Range(execAll(t.string, 1))

\* The third request of an inlineAll on a text with three references.
C24_Witness ==
    /\ Len(readUrls(task["A"][top].orig)) = 3
    /\ Len(fetchesOf("A", top)) = 3
    /\ task["A"][top].st = "fetching"
    /\ Len(task["A"][top].urls) = 1
    /\ task["A"][top].baseUrl # Undefined

\* The text s from position `from` on, with the address of every url(...)
\* of s that is exactly `url` replaced by dataUrl, and every other url(...)
\* and all text between them as they are.
RECURSIVE replaceReferences(_, _, _, _)
replaceReferences(s, from, url, dataUrl) ==
    LET starts == {i \in from..Len(s) : matchesAt(s, i)}
    IN  IF starts = {} THEN SubSeq(s, from, Len(s))
        ELSE LET i == CHOOSE x \in starts : \A y \in starts : x <= y
                 a == capStart(s, i)
                 e == capEnd(s, i)
                 end == closeAt(s, e + 1)
                 reference == SubSeq(s, a, e)
             IN  SubSeq(s, from, a - 1)
                 \o (IF reference = url THEN dataUrl ELSE reference)
                 \o SubSeq(s, e + 1, end - 1)
                 \o replaceReferences(s, end, url, dataUrl)

\* A step of call c in which inline has replaced a reference in owner o's
\* text.
inlined(c, o) ==
    /\ task[c][o].st = "fetching"
    /\ task'[c][o].st \in {"ready", "done"}

\* No reference of the text holds the start of a url(...).
plainReferences(string) ==
    \A i \in 1..Len(execAll(string, 1)) :
        \A k \in 1..Len(execAll(string, 1)[i]) : execAll(string, 1)[i][k] # "url("

\* C25 as stated: the text after inlining one reference is the text before
\* with that reference replaced by its data URI in every url(...) it is the
\* address of, and with every other url(...) and the text outside url(...)
\* as before.
C25_InlineReplacesExactly ==
    [][\A c \in Convs :
          inlined(c, top) =>
              LET t == task[c][top]
                  url == Head(t.urls)
                  dataUrl == dataAsUrl(task'[c][top].outcome.value, mimeType(url))
              IN  task'[c][top].string = replaceReferences(t.string, 1, url, dataUrl)]_vars

\* (The same on the texts in which no reference holds another url(...).)
C25_OnPlainReferences ==
    [][\A c \in Convs :
          (inlined(c, top) /\ plainReferences(task[c][top].orig)) =>
              LET t == task[c][top]
                  url == Head(t.urls)
                  dataUrl == dataAsUrl(task'[c][top].outcome.value, mimeType(url))
              IN  task'[c][top].string = replaceReferences(t.string, 1, url, dataUrl)]_vars

\* C26 as stated: an inlineAll sends no two requests for the same
\* reference.
C26_EachReferenceFetchedOnce ==
    \A c \in Convs :
        LET sent == fetchesOf(c, top)
        IN  \A i \in 1..Len(sent) : \A j \in 1..Len(sent) :
                sent[i].request.url = sent[j].request.url => i = j

\* (The same on the texts in which no reference is found twice.)
C26_OnDistinctReferences ==
    \A c \in Convs :
        LET sent == fetchesOf(c, top)
            found == readUrls(task[c][top].orig)
        IN  (\A i \in 1..Len(found) : \A j \in 1..Len(found) :
                 found[i] = found[j] => i = j)
            => /\ Len(sent) <= Len(found)
               /\ \A i \in 1..Len(sent) : \A j \in 1..Len(sent) :
                     sent[i].request.url = sent[j].request.url => i = j

\* The text a rule or a background with at most one external reference
\* resolves to, given how the fetch of that reference was answered.
resolvedText(string, outcome) ==
    IF readUrls(string) = <<>> THEN string
    ELSE LET url == readUrls(string)[1]
         IN  replaceReferences(string, 1, url, dataAsUrl(outcome.value, mimeType(url)))

\* The style nodes with the font rules among the children of the root's
\* clone.
fontsBlock(c) == SelectSeq(clone[c][Root].children, LAMBDA k : k.t = "fonts")

fontsAppended(c) ==
    stage(c) \in {"ImageInlining", "OptionsApplied", "Serialized",
                  "RasterizeRequested", "Rasterized"}

\* C28: while rules are being resolved the root's clone has no style node
\* with font rules; once embedFonts has resolved every selected rule is
\* resolved, and the last child of the root's clone is the one such style
\* node, whose text is the resolved texts of the selected rules in the
\* order of the style sheets and their rules, with a newline between two
\* of them, whatever the order of the answers.
C28_FontsJoinedInRuleOrder ==
    \A c \in Convs :
        /\ stage(c) \in {"Cloning", "FontResolving"} => fontsBlock(c) = <<>>
        /\ fontsAppended(c) =>
              LET kids == clone[c][Root].children
                  texts == [i \in 1..Len(webFonts) |->
                               resolvedText(webFonts[i].rule.cssText,
                                            task[c][fontOwner(i)].outcome)]
                  RECURSIVE lines(_)
                  lines(i) == IF i > Len(texts) THEN <<>>
                              ELSE IF i = Len(texts) THEN texts[i]
                              ELSE texts[i] \o <<"\\n">> \o lines(i + 1)
              IN  /\ \A o \in FontOwners : task[c][o].st = "done"
                  /\ Len(fontsBlock(c)) = 1
                  /\ kids[Len(kids)].t = "fonts"
                  /\ kids[Len(kids)].text = lines(1)

\* The third rule was requested and answered before the first.
C28_Witness ==
    /\ doc = DocGallery
    /\ stage("A") = "ImageInlining"
    /\ Len(webFonts) = 3
    /\ fetchLog[1].o = fontOwner(3)
    /\ fetchLog[2].o = fontOwner(1)
    /\ task["A"][fontOwner(3)].event = "success"
    /\ task["A"][fontOwner(1)].event = "timeout"
    /\ fontsBlock("A") # <<>>

\* C29: once images.inlineAll has resolved for a node of the clone tree --
\* and so, in the end, for all of them -- the source of an image and the
\* background of an element are what the answers to their own requests
\* make them, the source node's value with the answer put in, whatever the
\* order in which the children's requests were sent and answered.
C29_EmbeddingOrderIndependent ==
    \A c \in Convs :
        \A n \in Nodes :
            embed[c][n] = "done" =>
                /\ clone[c][n].kind = "img" =>
                      clone[c][n].src =
                          IF isDataUrl(srcNode(n).src) THEN srcNode(n).src
                          ELSE dataAsUrl(task[c][<<"img", n>>].outcome.value,
                                         mimeType(srcNode(n).src))
                /\ clone[c][n].background =
                      resolvedText(srcNode(n).background, task[c][<<"bg", n>>].outcome)

\* The second image was requested before the first image's background,
\* and its answer was another one.
C29_Witness ==
    /\ doc = DocGallery
    /\ stage("A") = "Serialized"
    /\ \E i \in 1..Len(fetchLog) : \E j \in 1..Len(fetchLog) :
          /\ i < j
          /\ fetchLog[i].o = <<"img", "n3">>
          /\ fetchLog[j].o = <<"bg", "n2">>
    /\ task["A"][<<"img", "n3">>].event = "timeout"
    /\ task["A"][<<"img", "n2">>].event = "success"
    /\ task["A"][<<"bg", "n2">>].event = "status"

\* images.inlineAll called again on the clone of n, as it is now, would
\* send no request and change nothing: an image has a data URI as its
\* source, and inliner.inlineAll resolves the background to itself at
\* once.
embeddedAlready(c, n) ==
    /\ clone[c][n].kind = "img" => isDataUrl(clone[c][n].src)
    /\ hasBackground(c, n) =>
          /\ inlineAll(clone[c][n].background, Undefined).st = "done"
          /\ inlineAll(clone[c][n].background, Undefined).string = clone[c][n].background

\* C30 as stated: on a clone tree on which images.inlineAll has succeeded,
\* images.inlineAll run again sends no request and leaves every source and
\* background as it is.
C30_EmbeddingIdempotent ==
    \A c \in Convs :
        stage(c) = "Serialized" => \A n \in treeNodes(c, Root) : embeddedAlready(c, n)

\* (The same on the documents whose backgrounds have no reference with
\* another reference in it.)
C30_OnPlainReferences ==
    \A c \in Convs :
        (stage(c) = "Serialized" /\ doc # DocNested)
            => \A n \in treeNodes(c, Root) : embeddedAlready(c, n)

\* The value the style patch gives a property: that of its last entry for
\* the property, or <<>> when it has none.
RECURSIVE patchValue(_, _)
patchValue(patch, property) ==
    IF patch = <<>> THEN <<>>
    ELSE IF patchValue(Tail(patch), property) # <<>>
    THEN patchValue(Tail(patch), property)
    ELSE IF Head(patch).property = property THEN Head(patch).value ELSE <<>>

\* What a property of the root clone's style is once the overrides are
\* written: the patch's value, else the override's, else the copied one.
finalStyle(c, property, override) ==
    IF patchValue(opts[c].style, property) # <<>>
    THEN patchValue(opts[c].style, property)
    ELSE IF override # <<>> THEN override
    ELSE getComputedStyle(Root)[property]

optionsApplied(c) ==
    stage(c) \in {"OptionsApplied", "Serialized", "RasterizeRequested", "Rasterized"}

\* C31: the overrides are written when images.inlineAll has resolved and
\* not before; once written, a property of the root clone's style has the
\* style patch's value when the patch names it, also when bgcolor, width
\* or height set the same property, and else the value of bgcolor, of
\* width or height in px, or the copied value.
C31_PatchAppliedLast ==
    \A c \in Convs :
        /\ (stage(c) \in {"FontResolving", "ImageInlining"} /\ clone[c][Root].exists)
              => clone[c][Root].style = getComputedStyle(Root)
        /\ optionsApplied(c) =>
              /\ imagesComplete(c)
              /\ clone[c][Root].style.backgroundColor =
                     finalStyle(c, "backgroundColor", opts[c].bgcolor)
              /\ clone[c][Root].style.width =
                     finalStyle(c, "width",
                                IF truthy(opts[c].width)
                                THEN withPx(opts[c].width[1]) ELSE <<>>)
              /\ clone[c][Root].style.height =
                     finalStyle(c, "height",
                                IF truthy(opts[c].height)
                                THEN withPx(opts[c].height[1]) ELSE <<>>)

\* bgcolor and width are given and the patch names both properties.
C31_Witness ==
    /\ stage("A") = "Serialized"
    /\ opts["A"].bgcolor = <<"red">>
    /\ opts["A"].width = <<100>>
    /\ opts["A"].style # <<>>
    /\ clone["A"][Root].style.backgroundColor = <<"blue">>
    /\ clone["A"][Root].style.width = <<"7", "px">>
    /\ clone["A"][Root].style.height = <<"auto">>

\* C32: in a raster conversion the timer of the settle delay is set only
\* when the svg has been decoded into an image, and the canvas is made,
\* and the image drawn on it, only in a step that finds the timer fired;
\* until then there is no canvas.
C32_DrawAfterDelay ==
    [][\A c \in Convs :
          /\ (pc'[c] = "delay" /\ pc[c] # "delay")
                => (pc[c] = "makeImage" /\ task'[c][svgImage].decoded = "load")
          /\ (pc'[c] = "delayed" /\ pc[c] # "delayed") => pc[c] = "delay"
          /\ result'[c].canvas # result[c].canvas
                => /\ entry[c] = "draw"
                   /\ pc[c] = "delayed"
                   /\ task[c][svgImage].decoded = "load"
                   /\ result[c].canvas = <<>>]_vars

C32_Witness ==
    /\ entry["A"] = "draw"
    /\ pc["A"] = "drawn"
    /\ task["A"][svgImage].decoded = "load"
    /\ result["A"].canvas # <<>>
    /\ result["A"].state = "fulfilled"

\* The scale the claim names: options.scale when it is a number, else 1.
statedScale(c) == IF Len(opts[c].scale) = 2 THEN opts[c].scale ELSE <<1, 1>>

\* C33 as stated: the canvas is as wide and as high as the svg's width and
\* height times the scale.
C33_AsStated ==
    \A c \in Convs :
        stage(c) = "Rasterized" =>
            \A i \in 1..2 :
                result[c].canvas[i] * statedScale(c)[2] =
                    result[c].size[i] * statedScale(c)[1]

\* C33 (amended): the width and the height of the canvas are the integer
\* parts of the svg's width and height times the scale, the scale being
\* options.scale when it is a number, 0 included, and 1 otherwise.
C33_CanvasIsScaledSize ==
    \A c \in Convs :
        stage(c) = "Rasterized" =>
            \A i \in 1..2 :
                LET product == result[c].size[i] * statedScale(c)[1]
                    den == statedScale(c)[2]
                IN  /\ result[c].canvas[i] * den <= product
                    /\ product < (result[c].canvas[i] + 1) * den

\* A 153 by 25 svg at scale 1/2.
C33_Witness ==
    /\ stage("A") = "Rasterized"
    /\ opts["A"].scale = <<1, 2>>
    /\ result["A"].size = <<153, 25>>
    /\ result["A"].canvas = <<76, 12>>

\* The text nodes innerHTML has put among the children of n's clone.
contentOfClone(c, n) ==
    LET texts == SelectSeq(clone[c][n].children, LAMBDA k : k.t = "text")
    IN  IF texts = <<>> THEN <<>> ELSE texts[1].text

\* The clone of n holds the user's input as the claim describes it.
userInputCopied(c, n) ==
    /\ srcNode(n).kind = "textarea" =>
          /\ contentOfClone(c, n) = srcNode(n).value
          /\ nodeChildren(c, n) = <<>>
    /\ srcNode(n).kind = "input" => clone[c][n].value = srcNode(n).value
    /\ srcNode(n).kind \notin {"textarea", "input"} =>
          /\ clone[c][n].value = srcNode(n).attribute
          /\ contentOfClone(c, n) = <<>>
          /\ nodeChildren(c, n) = attachedChildren(c, n)

\* C34 as stated: the clone of a textarea has the current value as its
\* content, the clone of an input has the current value as its value
\* attribute, whatever was authored, and the clone of any other node has
\* what cloning gave it.
C34_UserInputCopied ==
    \A c \in Convs : \A n \in Nodes : postProcessed(c, n) => userInputCopied(c, n)

\* (The same when the value of the textarea has no character reference.)
C34_OnPlainText ==
    \A c \in Convs : \A n \in Nodes :
        (postProcessed(c, n) /\ "&amp;" \notin Range(doc.nodes["n2"].value))
            => userInputCopied(c, n)

\* The call has failed before cloneNode(node, filter, true) had settled.
cloningRejected(c) ==
    /\ result[c].state = "rejected"
    /\ phase[c][Root] \notin {"resolved", "absent"}

hasCanvas == \E n \in Nodes : srcNode(n).kind = "canvas"

\* C35 as stated: no call fails while the root's cloneNode has not
\* settled, and the clone of a canvas, once made, is an image whose source
\* is the data URI of the canvas.
C35_CloningNeverRejects ==
    \A c \in Convs :
        /\ ~cloningRejected(c)
        /\ \A n \in Nodes :
              (srcNode(n).kind = "canvas" /\ phase[c][n] \in {"resolved", "appended"})
                  => /\ clone[c][n].kind = "img"
                     /\ clone[c][n].src = srcNode(n).dataUrl

\* (The same on the documents without a canvas.)
C35_WithoutCanvas ==
    \A c \in Convs : ~hasCanvas => ~cloningRejected(c)

\* (cloneNode fails on a canvas only by an image that does not decode or
\* by a child appended to the missing clone of a canvas without pixels.)
C35_CanvasFailures ==
    \A c \in Convs :
        cloningRejected(c) =>
            \/ result[c].error = <<"error", "event">>
                  /\ \E n \in Nodes : phase[c][n] = "copying"
            \/ result[c].error = <<"TypeError">>
                  /\ \E n \in Nodes \ {Root} :
                        phase[c][n] = "resolved" /\ emptyCanvas(parentOf(n))

\* The style nodes synthesized for pseudo-elements, in every clone of
\* every conversion: conversion, node and position among the children.
synthesized ==
    {x \in Convs \X Nodes \X (1..4) :
        /\ x[3] <= Len(clone[x[1]][x[2]].children)
        /\ clone[x[1]][x[2]].children[x[3]].t = "pseudo"}

classOf(x) == selectorClass(clone[x[1]][x[2]].children[x[3]].text)

\* C36: the class names util.uid has returned, for any node, for :before
\* or :after and in any conversion, are pairwise different; each ends in
\* a value the counter had, and the counter has counted them all.
C36_UidsDistinct ==
    /\ \A x \in synthesized : \A y \in synthesized : classOf(x) = classOf(y) => x = y
    /\ \A x \in synthesized : \E i \in 0..(uidIndex - 1) : classOf(x)[3] = ToString(i)
    /\ Cardinality(synthesized) = uidIndex

\* Six names, three in each conversion, all with the same random part.
C36_Witness ==
    /\ uidIndex = 6
    /\ Cardinality(synthesized) = 6
    /\ \A x \in synthesized : classOf(x)[2] = "aaaa"
    /\ \E x \in synthesized : \E y \in synthesized :
          x[1] = "A" /\ y[1] = "B" /\ x[2] = "n1" /\ y[2] = "n2"
          /\ classOf(y)[3] = "0" /\ classOf(x)[3] = "5"

\* Nothing of the embedding of n's clone is pending: its background is
\* inlined, and an image that was fetched has been answered and has fired
\* load or error.
embeddingDone(c, n) ==
    /\ embed[c][n] = "done"
    /\ task[c][<<"bg", n>>].st \in {"none", "done"}
    /\ task[c][<<"img", n>>].st \in {"none", "done"}
    /\ task[c][<<"img", n>>].st = "done" =>
          /\ task[c][<<"img", n>>].outcome.state = "fulfilled"
          /\ task[c][<<"img", n>>].decoded \in {"load", "error"}
    /\ readUrls(srcNode(n).background) # <<>> => task[c][<<"bg", n>>].st = "done"
    /\ (clone[c][n].kind = "img" /\ ~isDataUrl(srcNode(n).src))
          => task[c][<<"img", n>>].st = "done"

\* C37: images.inlineAll has resolved for a node only when nothing of the
\* embedding is pending in the whole subtree of its clone; the overrides
\* are written and the svg is made only when it has resolved for the
\* root, and until then there is no svg.
C37_SerializedAfterEmbedding ==
    \A c \in Convs :
        /\ \A n \in Nodes :
              (clone[c][n].exists /\ embed[c][n] = "done")
                  => \A k \in treeNodes(c, n) : embeddingDone(c, k)
        /\ stage(c) \in {"OptionsApplied", "Serialized"}
              => \A k \in treeNodes(c, Root) : embeddingDone(c, k)
        /\ result[c].value # <<>> => \A k \in treeNodes(c, Root) : embeddingDone(c, k)
        /\ stage(c) \in {"Cloning", "FontResolving", "ImageInlining"}
              => result[c].value = <<>>

\* The first image was the last to finish, and failed to decode.
C37_Witness ==
    /\ stage("A") = "Serialized"
    /\ result["A"].value # <<>>
    /\ fetchLog[Len(fetchLog)].o = <<"img", "n2">>
    /\ task["A"][<<"img", "n2">>].decoded = "error"
    /\ task["A"][<<"img", "n3">>].decoded = "load"
    /\ task["A"][<<"bg", "n2">>].st = "done"

\* The promise returned by the call has settled: fulfilled with the svg for
\* toSvg, with the canvas for draw, or rejected.
terminated(c) ==
    \/ pc[c] = "rejected"
    \/ pc[c] = "drawn"
    \/ pc[c] = "serialized" /\ entry[c] = "toSvg"

\* C38: a conversion that was called eventually settles, as Serialized (a
\* vector call), Rasterized (a raster call) or Failed, when requests are
\* answered or time out, images fire load or error and the timer fires.
C38_ConversionTerminates ==
    \A c \in Convs : (pc[c] # "idle") ~> terminated(c)

\* A raster call of a document with an image that failed to decode has gone
\* through a request, an error event, the svg image's load and the timer.
C38_Witness ==
    /\ pc["A"] = "drawn"
    /\ entry["A"] = "draw"
    /\ \E n \in Nodes :
          /\ task["A"][<<"img", n>>].st = "done"
          /\ task["A"][<<"img", n>>].decoded = "error"
          /\ task["A"][<<"img", n>>].event = "timeout"

\* The request was made under the options of the call that sent it.
readsOwnOptions(e) ==
    LET own == copyOptions(opts[e.c])
    IN  /\ e.request.withCredentials = (own.useCredentials = "true")
        /\ ("now" \in Range(e.request.url)) = (own.cacheBust = "true")
        /\ e.request.placeholder = placeholderOf(own)

\* C39: with one conversion in flight, vector or raster, every request it
\* sends is made under that call's own options; from the call on the shared
\* options are the copy of the call's options, and no step but a call
\* writes them.
C39_FetchReadsOwnCall ==
    /\ [](\A i \in 1..Len(fetchLog) : readsOwnOptions(fetchLog[i]))
    /\ [](\A c \in Convs : pc[c] # "idle" => implOptions = copyOptions(opts[c]))
    /\ [][implOptions' # implOptions => \E c \in Convs : called(c)]_vars

\* A raster call with all three options has sent a request and drawn.
C39_Witness ==
    /\ entry["A"] = "draw"
    /\ pc["A"] = "drawn"
    /\ opts["A"].imagePlaceholder = placeholderPng
    /\ opts["A"].cacheBust = "true"
    /\ opts["A"].useCredentials = "true"
    /\ \E i \in 1..Len(fetchLog) :
          /\ fetchLog[i].c = "A"
          /\ fetchLog[i].request.withCredentials
          /\ fetchLog[i].request.placeholder = <<"P">>
          /\ "now" \in Range(fetchLog[i].request.url)

====
